---- MODULE Spec2Model ----
(***************************************************************************)
(* Model of the TELOS taint-based enforcement core:                        *)
(*   - the eBPF LSM program   (telos_core/src/bpf_lsm.c)                   *)
(*   - the shared record layouts (shared/common_maps.h)                    *)
(*   - the loader daemon      (telos_core/loader/main.go)                  *)
(* Strings the code inspects byte by byte are sequences of one-character   *)
(* strings.  A failed lookup (NULL) is the empty sequence, a successful    *)
(* one is a one-element sequence holding the value.                        *)
(***************************************************************************)
EXTENDS Integers, Sequences, FiniteSets, TLC

\* ------------------------------------------------------------------------
\* Program constants
\* ------------------------------------------------------------------------
TAINT_CLEAN == 0
TAINT_LOW == 1
TAINT_MEDIUM == 2
TAINT_HIGH == 3
TAINT_CRITICAL == 4

EPERM == 1

\* sizeof(filename) in telos_check_file
FILENAME_BUF == 32

\* bytes of the action literal that emit_event copies
ACTION_COPY == 7

\* length of the comm field of process_info_t
COMM_LEN == 16

\* max_entries of process_map
PROCESS_MAP_MAX == 4096

\* ------------------------------------------------------------------------
\* Bounds of the model
\* ------------------------------------------------------------------------
\* number of events the ring buffer holds before bpf_ringbuf_reserve fails
\* (stands for 256 KB / record size)
RingCap == 1

\* ------------------------------------------------------------------------
\* Input domains
\* ------------------------------------------------------------------------
TaintLevels == TAINT_CLEAN..TAINT_CRITICAL

\* the task tree the hooks run in: init (tgid 1) <- 100 <- 101 <- 102
Pids == {100, 101, 102}

\* BPF_CORE_READ(current_task, real_parent, tgid) of the task with tgid pid
real_parent_tgid(pid) == IF pid = 100 THEN 1 ELSE pid - 1

NUL == "\\0"
GARBAGE == "?"

Str_agent == <<"a", "g", "e", "n", "t">>
Str_sh == <<"s", "h">>
Str_curl == <<"c", "u", "r", "l">>
Str_execve == <<"e", "x", "e", "c", "v", "e">>
Str_open == <<"o", "p", "e", "n">>
Str_id_rsa == <<"i", "d", "_", "r", "s", "a">>
Str_id_ == <<"i", "d", "_">>
Str_id == <<"i", "d">>
Str_notes_txt == <<"n", "o", "t", "e", "s", ".", "t", "x", "t">>
Str_xid_rsa == <<"x", "i", "d", "_", "r", "s", "a">>
Str_i_d == <<"i", "_", "d">>

\* comm of the task with the given tgid, as bpf_get_current_comm reports it
bpf_get_current_comm(pid) ==
    IF pid = 100 THEN Str_agent ELSE IF pid = 101 THEN Str_sh ELSE Str_curl

\* what the file-open hook can find behind its struct file argument
FileArg(dentry, readable, name) ==
    [dentry |-> dentry, readable |-> readable, name |-> name]
NoFile == FileArg(FALSE, FALSE, <<>>)
FileNames ==
    {Str_id_rsa, Str_id_, Str_id, Str_notes_txt, Str_xid_rsa, Str_i_d, <<>>}
FileArgs ==
    {FileArg(TRUE, TRUE, n) : n \in FileNames}
        \cup {FileArg(FALSE, FALSE, <<>>), FileArg(TRUE, FALSE, Str_id_rsa)}

\* ------------------------------------------------------------------------
\* State
\* ------------------------------------------------------------------------
VARIABLES
    process_map,   \* BPF hash map: pid -> process_info_t (DOMAIN = keys present)
    config_map,    \* BPF array map with one slot: 0 -> telos_config_t
    events,        \* BPF ring buffer: the records submitted and not yet consumed
    links,         \* which LSM hooks are attached
    phase,         \* where the daemon is in its life cycle
    resp,          \* the last command handled and the response sent for it
    last,          \* the last hook invocation, while nothing else has run since
    conns,         \* the accepted connections whose handler is still reading
    exit,          \* the exit status of the daemon process, once it has one
    pin,           \* the pin of the process table in the BPF file system
    socket,        \* the socket path: absent, bound to a listener, or left over
    done,          \* d.done is closed: Stop has run in this process
    handlers,      \* per accepted connection, where its handler is in its loop
    streams,       \* per client, the lines it wrote and the responses written to it
    gate           \* a pre-execution check between its two lookups, and after

\* what lies around the engine and the command handling
outer == <<pin, socket, done, handlers, streams, gate>>

vars ==
    <<process_map, config_map, events, links, phase, resp, last, conns, exit,
      pin, socket, done, handlers, streams, gate>>

\* ------------------------------------------------------------------------
\* Shared records (common_maps.h, bpf_lsm.c)
\* ------------------------------------------------------------------------
process_info_t(pid, taint_level, is_sandboxed, comm) ==
    [pid |-> pid, taint_level |-> taint_level,
     is_sandboxed |-> is_sandboxed, comm |-> comm]

telos_config_t(max_taint_for_exec, max_taint_for_open, enabled) ==
    [max_taint_for_exec |-> max_taint_for_exec,
     max_taint_for_open |-> max_taint_for_open,
     enabled |-> enabled]

event_t(pid, taint_level, blocked, comm, action) ==
    [pid |-> pid, taint_level |-> taint_level, blocked |-> blocked,
     comm |-> comm, action |-> action]

\* a BPF array map is created with every slot zero-filled
ZeroConfig == telos_config_t(0, 0, 0)

\* ------------------------------------------------------------------------
\* Kernel helpers
\* ------------------------------------------------------------------------
\* NULL is <<>>, a found value v is <<v>>
bpf_map_lookup_elem(map, key) ==
    IF key \in DOMAIN map THEN <<map[key]>> ELSE <<>>

get_config(cfgmap) == bpf_map_lookup_elem(cfgmap, 0)

\* the bytes of a C string up to its first NUL
RECURSIVE CStr(_)
CStr(bytes) ==
    IF bytes = <<>> \/ Head(bytes) = NUL THEN <<>>
    ELSE <<Head(bytes)>> \o CStr(Tail(bytes))

\* __builtin_memcpy(dst, literal, n): n bytes starting at the literal, that is
\* its characters, its terminating NUL, and whatever follows it in memory
memcpy_literal(literal, n) ==
    [i \in 1..n |->
        IF i <= Len(literal) THEN literal[i]
        ELSE IF i = Len(literal) + 1 THEN NUL ELSE GARBAGE]

\* bpf_probe_read_kernel_str(dst, size, src): at most size-1 characters and a NUL
bpf_probe_read_kernel_str(size, src) ==
    (IF Len(src) <= size - 1 THEN src ELSE SubSeq(src, 1, size - 1)) \o <<NUL>>

\* a channel that makes room by discarding its oldest record
emit_event_overwrite(ring, pid, taint, blocked, action) ==
    Append(IF Len(ring) >= RingCap THEN Tail(ring) ELSE ring,
           event_t(pid, taint, blocked, bpf_get_current_comm(pid),
                   CStr(memcpy_literal(action, ACTION_COPY))))

\* the events ring after emit_event: the record is appended when
\* bpf_ringbuf_reserve finds room and dropped when it does not
emit_event(ring, pid, taint, blocked, action) ==
    IF Len(ring) >= RingCap
    THEN ring
    ELSE Append(ring,
                event_t(pid, taint, blocked, bpf_get_current_comm(pid),
                        CStr(memcpy_literal(action, ACTION_COPY))))

\* ------------------------------------------------------------------------
\* LSM hooks (bpf_lsm.c)
\* ------------------------------------------------------------------------
\* what a hook invocation leaves behind for an observer
Observed(hook, pid, file, ret, before) ==
    [hook |-> hook, pid |-> pid, file |-> file, ret |-> ret, before |-> before]
NoHook == Observed("none", 0, NoFile, 0, 0)

\* a resolver that prefers the parent's entry to the caller's own
effective_taint_parent_first(pid, pmap) ==
    LET parent_info == bpf_map_lookup_elem(pmap, real_parent_tgid(pid))
        info == bpf_map_lookup_elem(pmap, pid)
    IN  IF parent_info # <<>> THEN parent_info[1].taint_level
        ELSE IF info # <<>> THEN info[1].taint_level
        ELSE TAINT_CLEAN

\* a resolver that walks one more hop, to the grandparent
effective_taint_two_hops(pid, pmap) ==
    LET info == bpf_map_lookup_elem(pmap, pid)
        ppid == real_parent_tgid(pid)
        parent_info == bpf_map_lookup_elem(pmap, ppid)
        grand_info == bpf_map_lookup_elem(pmap, real_parent_tgid(ppid))
    IN  IF info # <<>> THEN info[1].taint_level
        ELSE IF parent_info # <<>> THEN parent_info[1].taint_level
        ELSE IF grand_info # <<>> THEN grand_info[1].taint_level
        ELSE TAINT_CLEAN

\* a resolver that takes the higher of the caller's and the parent's level
effective_taint_highest(pid, pmap) ==
    LET info == bpf_map_lookup_elem(pmap, pid)
        parent_info == bpf_map_lookup_elem(pmap, real_parent_tgid(pid))
        own == IF info # <<>> THEN info[1].taint_level ELSE TAINT_CLEAN
        parent == IF parent_info # <<>> THEN parent_info[1].taint_level
                  ELSE TAINT_CLEAN
    IN  IF own > parent THEN own ELSE parent

\* telos_check_exec, lines 123-141: this process first, then its parent
effective_taint(pid, pmap) ==
    LET info == bpf_map_lookup_elem(pmap, pid)
    IN  IF info # <<>>
        THEN info[1].taint_level
        ELSE LET ppid == real_parent_tgid(pid)
                 parent_info == bpf_map_lookup_elem(pmap, ppid)
             IN  IF parent_info # <<>>
                 THEN parent_info[1].taint_level
                 ELSE TAINT_CLEAN

\* a comparison that also fires at the threshold itself
exceeds_or_equals(taint, max_taint) == taint >= max_taint

\* telos_check_exec, line 144
exceeds(taint, max_taint) == taint > max_taint

\* a gate that only audits
exec_return_audit_only(enforce) == 0

\* a gate that ignores the enabled flag
exec_return_always_deny(enforce) == -EPERM

\* telos_check_exec, lines 148-153: the value returned once the event is out
exec_return(enforce) == IF enforce # 0 THEN -EPERM ELSE 0

\* telos_check_exec, lines 119-120: the threshold the gate compares with
exec_max_taint(cfgmap) ==
    LET config == get_config(cfgmap)
    IN  IF config # <<>> THEN config[1].max_taint_for_exec ELSE TAINT_MEDIUM

\* lines 121 and 176: whether the gates enforce
gate_enforce(cfgmap) ==
    LET config == get_config(cfgmap)
    IN  IF config # <<>> THEN config[1].enabled ELSE 1

\* telos_check_exec as a function of what it reads: the value it returns and
\* the events ring it leaves
check_exec(pid, pmap, cfgmap, ring) ==
    LET max_taint == exec_max_taint(cfgmap)
        enforce == gate_enforce(cfgmap)
        taint == effective_taint(pid, pmap)
    IN  IF exceeds(taint, max_taint)
        THEN [ring |-> emit_event(ring, pid, taint, 1, Str_execve),
              ret |-> exec_return(enforce)]
        ELSE [ring |-> ring, ret |-> 0]

\* filename[i] of the buffer bpf_probe_read_kernel_str filled; the bytes after
\* the NUL are never written, and the && chain stops before reading them
filename_at(buf, i) == buf[i + 1]

\* a pattern that forgets the underscore
matches_id_only(buf) ==
    /\ filename_at(buf, 0) = "i"
    /\ filename_at(buf, 1) = "d"

\* the hardcoded sensitive-file pattern, line 198
matches_id_prefix(buf) ==
    /\ filename_at(buf, 0) = "i"
    /\ filename_at(buf, 1) = "d"
    /\ filename_at(buf, 2) = "_"

\* a lookup that falls back to the parent's entry, as the exec gate does
file_lookup_with_parent(pid, pmap) ==
    LET info == bpf_map_lookup_elem(pmap, pid)
    IN  IF info # <<>> THEN info
        ELSE bpf_map_lookup_elem(pmap, real_parent_tgid(pid))

\* telos_check_file, line 167: the caller's own entry only
file_lookup(pid, pmap) == bpf_map_lookup_elem(pmap, pid)

\* a test against the configured threshold
file_taint_over_config(taint_level, max_taint) == taint_level > max_taint

\* telos_check_file, line 180: max_taint is read from Config but not used
file_taint_applies(taint_level, max_taint) == taint_level >= TAINT_CRITICAL

\* a file gate that denies when it cannot obtain the name
check_file_fail_closed(pid, file, pmap, cfgmap, ring) ==
    LET info == file_lookup(pid, pmap)
        enforce == gate_enforce(cfgmap)
        allow == [ring |-> ring, ret |-> 0]
        deny == [ring |-> emit_event(ring, pid, info[1].taint_level, 1,
                                     Str_open),
                 ret |-> IF enforce # 0 THEN -EPERM ELSE 0]
    IN  IF info = <<>> THEN allow
        ELSE IF file_taint_applies(info[1].taint_level, TAINT_HIGH)
        THEN IF ~file.dentry THEN deny
             ELSE IF ~file.readable THEN deny
             ELSE IF matches_id_prefix(
                        bpf_probe_read_kernel_str(FILENAME_BUF, file.name))
             THEN deny
             ELSE allow
        ELSE allow

\* telos_check_file as a function of what it reads
check_file(pid, file, pmap, cfgmap, ring) ==
    LET info == file_lookup(pid, pmap)
        config == get_config(cfgmap)
        max_taint == IF config # <<>> THEN config[1].max_taint_for_open
                     ELSE TAINT_HIGH
        enforce == gate_enforce(cfgmap)
        allow == [ring |-> ring, ret |-> 0]
    IN  IF info = <<>> THEN allow
        ELSE IF file_taint_applies(info[1].taint_level, max_taint)
        THEN IF ~file.dentry THEN allow
             ELSE IF ~file.readable THEN allow
             ELSE IF matches_id_prefix(
                        bpf_probe_read_kernel_str(FILENAME_BUF, file.name))
             THEN [ring |-> emit_event(ring, pid, info[1].taint_level, 1,
                                       Str_open),
                   ret |-> IF enforce # 0 THEN -EPERM ELSE 0]
             ELSE allow
        ELSE allow

\* telos_task_alloc as a function of what it reads: it returns 0 on both paths
task_alloc(parent_pid, pmap) ==
    LET parent_info == bpf_map_lookup_elem(pmap, parent_pid)
    IN  IF parent_info = <<>> THEN 0 ELSE 0

telos_check_exec(pid) ==
    /\ links.CheckExec
    /\ LET r == check_exec(pid, process_map, config_map, events)
       IN  /\ events' = r.ring
           /\ last' = Observed("exec", pid, NoFile, r.ret, Len(events))
    /\ UNCHANGED <<process_map, config_map, links, phase, resp, conns, exit>>
    /\ UNCHANGED outer

telos_check_file(pid, file) ==
    /\ links.CheckFile
    /\ LET r == check_file(pid, file, process_map, config_map, events)
       IN  /\ events' = r.ring
           /\ last' = Observed("file", pid, file, r.ret, Len(events))
    /\ UNCHANGED <<process_map, config_map, links, phase, resp, conns, exit>>
    /\ UNCHANGED outer

\* an observer that gives the child of a tracked parent the parent's entry
telos_task_alloc_inherit(pid) ==
    /\ links.TaskAlloc
    /\ last' = Observed("task", pid, NoFile, task_alloc(pid, process_map),
                        Len(events))
    /\ process_map' =
            IF pid \in DOMAIN process_map
            THEN [k \in DOMAIN process_map \cup {pid + 1} |->
                    IF k = pid + 1
                    THEN process_info_t(pid + 1, process_map[pid].taint_level,
                                        0, <<>>)
                    ELSE process_map[k]]
            ELSE process_map
    /\ UNCHANGED <<config_map, events, links, phase, resp, conns, exit>>
    /\ UNCHANGED outer

telos_task_alloc(pid) ==
    /\ links.TaskAlloc
    /\ last' = Observed("task", pid, NoFile, task_alloc(pid, process_map),
                        Len(events))
    /\ UNCHANGED <<process_map, config_map, events, links, phase, resp, conns,
                   exit>>
    /\ UNCHANGED outer

\* ------------------------------------------------------------------------
\* Loader daemon (main.go)
\* ------------------------------------------------------------------------
BPFLinks(exec, file, task) ==
    [CheckExec |-> exec, CheckFile |-> file, TaskAlloc |-> task]
NoLinks == BPFLinks(FALSE, FALSE, FALSE)

\* a process_map with no entry, as ebpf.NewCollection creates it
EmptyMap == [p \in {} |-> p]

\* a config_map whose one slot holds c
ConfigMap(c) == [k \in {0} |-> c]

\* a JSON field: <<>> when missing or of the wrong type, <<v>> when present
IPCCommand(command, pid, taint_level, comm) ==
    [command |-> command,
     data |-> [pid |-> pid, taint_level |-> taint_level, comm |-> comm]]

\* error is <<>> when empty (omitted), else the pieces of the message;
\* data is <<>> when absent, else <<value>>
IPCResponse(success, error, data) ==
    [success |-> success, error |-> error, data |-> data]

NoCommand == IPCCommand("", <<>>, <<>>, <<>>)

\* a line read from a connection: bytes that decode to an IPCCommand
\* (valid, with the command they decode to), or bytes that do not
Line(valid, cmd) == [valid |-> valid, cmd |-> cmd]
BadLine == Line(FALSE, NoCommand)

\* json.Unmarshal(line, &cmd): [ok, cmd]
json_Unmarshal(line) ==
    [ok |-> line.valid, cmd |-> IF line.valid THEN line.cmd ELSE NoCommand]

\* the last turn of a handler: the connection, the line read, the response
\* sendResponse wrote, the line the command logged, the error its map call
\* returned
Handled(conn, line, response, log, err) ==
    [conn |-> conn, valid |-> line.valid, cmd |-> line.cmd,
     response |-> response, log |-> log, err |-> err]
NoResp == Handled(0, BadLine, IPCResponse(FALSE, <<>>, <<>>), "", "")

\* the process has not exited / has exited with a status
NoExit == <<>>
Exited(code, err) == <<[code |-> code, err |-> err]>>

\* uint32(f) of a JSON number: exact for the whole numbers 0 <= f < 2^31,
\* the only ones the command clients of this model send
uint32(f) == f

\* copy(info.Comm[:], []byte(comm)): at most COMM_LEN bytes are copied
copy_comm(comm) ==
    IF Len(comm) <= COMM_LEN THEN comm ELSE SubSeq(comm, 1, COMM_LEN)

\* the errno of a bpf(2) map call that the kernel fails whatever the table
\* holds (the bucket lock is busy); NoErrno when it does not
NoErrno == ""
Errnos == {NoErrno, "EBUSY"}

\* a table that takes a new key however many it holds
MapPut_unbounded(pmap, key, value, errno) ==
    IF errno # NoErrno
    THEN [ok |-> FALSE, err |-> errno, map |-> pmap]
    ELSE [ok |-> TRUE, err |-> NoErrno,
          map |-> [k \in DOMAIN pmap \cup {key} |->
                      IF k = key THEN value ELSE pmap[k]]]

\* ebpf.Map.Put on the hash map: [ok, err, map]; a new key needs a free slot
MapPut(pmap, key, value, errno) ==
    IF errno # NoErrno
    THEN [ok |-> FALSE, err |-> errno, map |-> pmap]
    ELSE IF key \notin DOMAIN pmap
            /\ Cardinality(DOMAIN pmap) >= PROCESS_MAP_MAX
    THEN [ok |-> FALSE, err |-> "E2BIG", map |-> pmap]
    ELSE [ok |-> TRUE, err |-> NoErrno,
          map |-> [k \in DOMAIN pmap \cup {key} |->
                      IF k = key THEN value ELSE pmap[k]]]

\* ebpf.Map.Delete: [ok, err, map]; deleting an absent key is an error
MapDelete(pmap, key, errno) ==
    IF errno # NoErrno
    THEN [ok |-> FALSE, err |-> errno, map |-> pmap]
    ELSE IF key \notin DOMAIN pmap
    THEN [ok |-> FALSE, err |-> "ENOENT", map |-> pmap]
    ELSE [ok |-> TRUE, err |-> NoErrno,
          map |-> [k \in DOMAIN pmap \ {key} |-> pmap[k]]]

\* the command handlers: [map, response, log, err], log being the line the
\* handler prints with log.Printf ("" when it prints none) and err the error
\* its map call returned (NoErrno when it made none or the call succeeded)
Result(pmap, response, log) ==
    [map |-> pmap, response |-> response, log |-> log, err |-> NoErrno]
Called(result, err) == [result EXCEPT !.err = err]
NoLog == ""

\* an update that changes the level of the entry already there and keeps
\* its comm
cmdUpdateTaint_keep_comm(pmap, data, errno) ==
    IF data.pid = <<>>
    THEN Result(pmap, IPCResponse(FALSE, <<"Missing or invalid 'pid'">>, <<>>),
                NoLog)
    ELSE IF data.taint_level = <<>>
    THEN Result(pmap,
                IPCResponse(FALSE, <<"Missing or invalid 'taint_level'">>, <<>>),
                NoLog)
    ELSE LET pid == uint32(data.pid[1])
             level == uint32(data.taint_level[1])
             comm == IF pid \in DOMAIN pmap THEN pmap[pid].comm ELSE <<>>
             info == process_info_t(pid, level, 0, comm)
             put == MapPut(pmap, pid, info, errno)
         IN  IF ~put.ok
             THEN Called(Result(pmap, IPCResponse(FALSE, <<put.err>>, <<>>),
                                NoLog), put.err)
             ELSE Result(put.map, IPCResponse(TRUE, <<>>, <<>>), "[UPDATE]")

\* an update that merges with the entry already there, keeping the higher level
cmdUpdateTaint_keep_max(pmap, data, errno) ==
    IF data.pid = <<>> \/ data.taint_level = <<>>
    THEN Result(pmap, IPCResponse(FALSE, <<"Missing or invalid field">>, <<>>),
                NoLog)
    ELSE LET pid == uint32(data.pid[1])
             level == uint32(data.taint_level[1])
             old == IF pid \in DOMAIN pmap THEN pmap[pid].taint_level ELSE 0
             info == process_info_t(pid, IF old > level THEN old ELSE level,
                                    0, <<>>)
         IN  Result(MapPut(pmap, pid, info, errno).map,
                    IPCResponse(TRUE, <<>>, <<>>), "[UPDATE]")

\* an update that takes a missing taint_level for CLEAN
cmdUpdateTaint_default_level(pmap, data, errno) ==
    IF data.pid = <<>>
    THEN Result(pmap, IPCResponse(FALSE, <<"Missing or invalid 'pid'">>, <<>>),
                NoLog)
    ELSE LET pid == uint32(data.pid[1])
             level == IF data.taint_level = <<>> THEN TAINT_CLEAN
                      ELSE uint32(data.taint_level[1])
             info == process_info_t(pid, level, 0, <<>>)
             put == MapPut(pmap, pid, info, errno)
         IN  IF ~put.ok
             THEN Called(Result(pmap, IPCResponse(FALSE, <<put.err>>, <<>>),
                                NoLog), put.err)
             ELSE Result(put.map, IPCResponse(TRUE, <<>>, <<>>), "[UPDATE]")

cmdUpdateTaint(pmap, data, errno) ==
    IF data.pid = <<>>
    THEN Result(pmap, IPCResponse(FALSE, <<"Missing or invalid 'pid'">>, <<>>),
                NoLog)
    ELSE IF data.taint_level = <<>>
    THEN Result(pmap,
                IPCResponse(FALSE, <<"Missing or invalid 'taint_level'">>, <<>>),
                NoLog)
    ELSE LET pid == uint32(data.pid[1])
             level == uint32(data.taint_level[1])
             info == process_info_t(pid, level, 0, <<>>)
             put == MapPut(pmap, pid, info, errno)
         IN  IF ~put.ok
             THEN Called(Result(pmap, IPCResponse(FALSE, <<put.err>>, <<>>),
                                NoLog), put.err)
             ELSE Result(put.map, IPCResponse(TRUE, <<>>, <<>>), "[UPDATE]")

\* a clear that answers without deleting
cmdClearTaint_keep_entry(pmap, data, errno) ==
    IF data.pid = <<>>
    THEN Result(pmap, IPCResponse(FALSE, <<"Missing or invalid 'pid'">>, <<>>),
                NoLog)
    ELSE Result(pmap, IPCResponse(TRUE, <<>>, <<>>), "[CLEAR] taint cleared")

\* a clear that empties the table
cmdClearTaint_clear_all(pmap, data, errno) ==
    IF data.pid = <<>>
    THEN Result(pmap, IPCResponse(FALSE, <<"Missing or invalid 'pid'">>, <<>>),
                NoLog)
    ELSE Result(EmptyMap, IPCResponse(TRUE, <<>>, <<>>),
                "[CLEAR] taint cleared")

\* every error of Delete is taken for "not found" and ignored
cmdClearTaint(pmap, data, errno) ==
    IF data.pid = <<>>
    THEN Result(pmap, IPCResponse(FALSE, <<"Missing or invalid 'pid'">>, <<>>),
                NoLog)
    ELSE LET pid == uint32(data.pid[1])
             del == MapDelete(pmap, pid, errno)
         IN  Called(Result(del.map, IPCResponse(TRUE, <<>>, <<>>),
                           IF ~del.ok THEN "[CLEAR] (was not tracked)"
                           ELSE "[CLEAR] taint cleared"), del.err)

\* a registration that writes comm into the entry already there and keeps
\* that entry's level
cmdRegisterAgent_keep_level(pmap, data, errno) ==
    IF data.pid = <<>>
    THEN Result(pmap, IPCResponse(FALSE, <<"Missing or invalid 'pid'">>, <<>>),
                NoLog)
    ELSE LET pid == uint32(data.pid[1])
             comm == IF data.comm = <<>> THEN <<>> ELSE data.comm[1]
             level == IF pid \in DOMAIN pmap THEN pmap[pid].taint_level
                      ELSE TAINT_CLEAN
             info == process_info_t(pid, level, 0, copy_comm(comm))
             put == MapPut(pmap, pid, info, errno)
         IN  IF ~put.ok
             THEN Called(Result(pmap, IPCResponse(FALSE, <<put.err>>, <<>>),
                                NoLog), put.err)
             ELSE Result(put.map, IPCResponse(TRUE, <<>>, <<>>), "[REGISTER]")

cmdRegisterAgent(pmap, data, errno) ==
    IF data.pid = <<>>
    THEN Result(pmap, IPCResponse(FALSE, <<"Missing or invalid 'pid'">>, <<>>),
                NoLog)
    ELSE LET pid == uint32(data.pid[1])
             comm == IF data.comm = <<>> THEN <<>> ELSE data.comm[1]
             info == process_info_t(pid, TAINT_CLEAN, 0, copy_comm(comm))
             put == MapPut(pmap, pid, info, errno)
         IN  IF ~put.ok
             THEN Called(Result(pmap, IPCResponse(FALSE, <<put.err>>, <<>>),
                                NoLog), put.err)
             ELSE Result(put.map, IPCResponse(TRUE, <<>>, <<>>), "[REGISTER]")

\* a state report that leaves out the entries at CLEAN
cmdGetState_skip_clean(pmap) ==
    LET shown == {key \in DOMAIN pmap : pmap[key].taint_level # TAINT_CLEAN}
        processes == [key \in shown |->
                         [taint_level |-> pmap[key].taint_level,
                          sandboxed |-> pmap[key].is_sandboxed]]
        state == [processes |-> processes,
                  count |-> Cardinality(DOMAIN processes)]
    IN  Result(pmap, IPCResponse(TRUE, <<>>, <<state>>), NoLog)

cmdGetState(pmap) ==
    LET processes == [key \in DOMAIN pmap |->
                         [taint_level |-> pmap[key].taint_level,
                          sandboxed |-> pmap[key].is_sandboxed]]
        state == [processes |-> processes,
                  count |-> Cardinality(DOMAIN processes)]
    IN  Result(pmap, IPCResponse(TRUE, <<>>, <<state>>), NoLog)

handleCommand(pmap, cmd, errno) ==
    IF cmd.command = "PING"
    THEN Result(pmap, IPCResponse(TRUE, <<>>, <<"pong">>), NoLog)
    ELSE IF cmd.command = "UPDATE_TAINT"
    THEN cmdUpdateTaint(pmap, cmd.data, errno)
    ELSE IF cmd.command = "CLEAR_TAINT"
    THEN cmdClearTaint(pmap, cmd.data, errno)
    ELSE IF cmd.command = "REGISTER_AGENT"
    THEN cmdRegisterAgent(pmap, cmd.data, errno)
    ELSE IF cmd.command = "GET_STATE" THEN cmdGetState(pmap)
    ELSE Result(pmap,
                IPCResponse(FALSE, <<"Unknown command: ", cmd.command>>, <<>>),
                NoLog)

\* initConfig: the defaults the daemon writes to slot 0
DefaultConfig == telos_config_t(TAINT_MEDIUM, TAINT_HIGH, 1)

\* the pin of the process table: absent; naming the table of the engine this
\* run loaded (own); or naming the table an earlier run left, map
NoPin == [exists |-> FALSE, own |-> FALSE, map |-> EmptyMap]
OwnPin == [exists |-> TRUE, own |-> TRUE, map |-> EmptyMap]
StalePin(pmap) == [exists |-> TRUE, own |-> FALSE, map |-> pmap]

\* ProcessMap.Pin(path): fails, with a warning only, when the path exists
\* already or the BPF file system refuses it
Pin(old, pin_ok) ==
    IF old.exists THEN old ELSE IF pin_ok THEN OwnPin ELSE NoPin

\* a handler between two lines, and a handler holding the turn it is in
NoTurn == NoResp
Handler(pc, turn) == [pc |-> pc, turn |-> turn]
Reading == Handler("read", NoTurn)
NoHandlers == [c \in {} |-> Reading]

\* the clients of the socket and, for each, its connection as a byte stream:
\* the lines the client has written (sent), those the handler's reader has
\* not consumed yet (inbox), and the sendResponse calls made for it (outbox)
Clients == {1, 2}
Stream(sent, inbox, outbox) ==
    [sent |-> sent, inbox |-> inbox, outbox |-> outbox]
NoStream == Stream(<<>>, <<>>, <<>>)
NoStreams == [c \in Clients |-> NoStream]

\* Start, step by step; an error returned by Start ends the process with
\* status 1 (log.Fatalf), and the kernel drops the links of a process that
\* exits
Fatal(err) ==
    /\ phase' = "failed"
    /\ links' = NoLinks
    /\ last' = NoHook
    /\ exit' = Exited(1, err)

\* rlimit.RemoveMemlock and os.MkdirAll
StartPrepare(memlock_ok, mkdir_ok) ==
    /\ phase = "new"
    /\ IF ~memlock_ok THEN Fatal("failed to remove memlock")
       ELSE IF ~mkdir_ok THEN Fatal("failed to create BPF pin path")
       ELSE phase' = "prepared" /\ UNCHANGED <<links, last, exit>>
    /\ UNCHANGED <<process_map, config_map, events, resp, conns>>
    /\ UNCHANGED outer

\* a load that goes on when telos_check_exec cannot be attached
loadBPF_exec_best_effort(load_ok, pin_ok, exec, file, task) ==
    /\ phase = "prepared"
    /\ IF ~load_ok
       THEN /\ Fatal("failed to load BPF: new collection")
            /\ UNCHANGED <<process_map, config_map, events, pin>>
       ELSE /\ process_map' = EmptyMap
            /\ pin' = Pin(pin, pin_ok)
            /\ config_map' = ConfigMap(ZeroConfig)
            /\ events' = <<>>
            /\ phase' = "loaded"
            /\ links' = BPFLinks(exec = "attached", file = "attached",
                                 task = "attached")
            /\ last' = NoHook
            /\ UNCHANGED exit
    /\ UNCHANGED <<resp, conns, socket, done, handlers, streams, gate>>

\* a load for which every failed attach is an error
loadBPF_all_mandatory(load_ok, pin_ok, exec, file, task) ==
    /\ phase = "prepared"
    /\ IF ~load_ok
       THEN /\ Fatal("failed to load BPF: new collection")
            /\ UNCHANGED <<process_map, config_map, events, pin>>
       ELSE /\ process_map' = EmptyMap
            /\ pin' = Pin(pin, pin_ok)
            /\ config_map' = ConfigMap(ZeroConfig)
            /\ events' = <<>>
            /\ IF "error" \in {exec, file, task}
               THEN Fatal("failed to load BPF: attach")
               ELSE /\ phase' = "loaded"
                    /\ links' = BPFLinks(exec = "attached", file = "attached",
                                         task = "attached")
                    /\ last' = NoHook
                    /\ UNCHANGED exit
    /\ UNCHANGED <<resp, conns, socket, done, handlers, streams, gate>>

\* loadBPF: the collection is loaded (maps created empty and zero-filled),
\* then each program the object holds is attached; only a failed attach of
\* telos_check_exec is an error
loadBPF(load_ok, pin_ok, exec, file, task) ==
    /\ phase = "prepared"
    /\ IF ~load_ok
       THEN /\ Fatal("failed to load BPF: new collection")
            /\ UNCHANGED <<process_map, config_map, events, pin>>
       ELSE /\ process_map' = EmptyMap
            /\ pin' = Pin(pin, pin_ok)
            /\ config_map' = ConfigMap(ZeroConfig)
            /\ events' = <<>>
            /\ IF exec = "error"
               THEN Fatal("failed to load BPF: attach check_exec")
               ELSE /\ phase' = "loaded"
                    /\ links' = BPFLinks(exec = "attached", file = "attached",
                                         task = "attached")
                    /\ last' = NoHook
                    /\ UNCHANGED exit
    /\ UNCHANGED <<resp, conns, socket, done, handlers, streams, gate>>

\* a daemon that writes a Config with enforcement off
initConfig_audit_only(ok) ==
    /\ phase = "loaded"
    /\ IF ok
       THEN /\ config_map' = ConfigMap([DefaultConfig EXCEPT !.enabled = 0])
            /\ phase' = "configured"
            /\ last' = NoHook
            /\ UNCHANGED <<links, exit>>
       ELSE Fatal("failed to init config") /\ UNCHANGED config_map
    /\ UNCHANGED <<process_map, events, resp, conns>>
    /\ UNCHANGED outer

initConfig(ok) ==
    /\ phase = "loaded"
    /\ IF ok
       THEN /\ config_map' = ConfigMap(DefaultConfig)
            /\ phase' = "configured"
            /\ last' = NoHook
            /\ UNCHANGED <<links, exit>>
       ELSE Fatal("failed to init config") /\ UNCHANGED config_map
    /\ UNCHANGED <<process_map, events, resp, conns>>
    /\ UNCHANGED outer

\* a listener started as soon as the engine is loaded
startSocketServer_early(ok) ==
    /\ phase \in {"loaded", "configured"}
    /\ IF ok
       THEN /\ phase' = "serving"
            /\ socket' = "listening"
            /\ UNCHANGED <<links, last, exit>>
       ELSE Fatal("failed to start socket server") /\ socket' = "none"
    /\ UNCHANGED <<process_map, config_map, events, resp, conns>>
    /\ UNCHANGED <<pin, done, handlers, streams, gate>>

\* startSocketServer: the path is removed, then net.Listen binds it
startSocketServer(ok) ==
    /\ phase = "configured"
    /\ IF ok
       THEN /\ phase' = "serving"
            /\ socket' = "listening"
            /\ UNCHANGED <<links, last, exit>>
       ELSE Fatal("failed to start socket server") /\ socket' = "none"
    /\ UNCHANGED <<process_map, config_map, events, resp, conns>>
    /\ UNCHANGED <<pin, done, handlers, streams, gate>>

\* acceptConnections: Accept returns a connection, which gets its handler
acceptConnections(c) ==
    /\ phase = "serving"
    /\ socket = "listening"
    /\ c \notin conns
    /\ conns' = conns \cup {c}
    /\ handlers' = [k \in conns \cup {c} |->
                        IF k = c THEN Reading ELSE handlers[k]]
    /\ UNCHANGED <<streams, gate>>
    /\ last' = NoHook
    /\ UNCHANGED <<process_map, config_map, events, links, phase, resp, exit>>
    /\ UNCHANGED <<pin, socket, done>>

\* a handler that hangs up after a response with success = false
handleConnection_hang_up(c, line, errno) ==
    /\ phase = "serving"
    /\ c \in conns
    /\ handlers[c] = Reading
    /\ LET cmd == json_Unmarshal(line)
           r == IF ~cmd.ok
                THEN Result(process_map,
                            IPCResponse(FALSE, <<"Invalid JSON: ", "syntax">>,
                                        <<>>), NoLog)
                ELSE handleCommand(process_map, cmd.cmd, errno)
       IN  /\ process_map' = r.map
           /\ resp' = Handled(c, line, r.response, r.log, r.err)
           /\ conns' = IF r.response.success THEN conns ELSE conns \ {c}
           /\ handlers' = IF r.response.success THEN handlers
                           ELSE [k \in conns \ {c} |-> handlers[k]]
           /\ UNCHANGED <<streams, gate>>
    /\ last' = NoHook
    /\ UNCHANGED <<config_map, events, links, phase, exit>>
    /\ UNCHANGED <<pin, socket, done>>

\* a pre-execution check in flight.  stage: none; "parent", the caller's own
\* lookup is done (info) and the parent's is to come; "returned".  verdicts
\* are the verdicts the tables that existed since the check started give
\* the caller, ret the value the check returned
Gate(stage, pid, info, verdicts, ret) ==
    [stage |-> stage, pid |-> pid, info |-> info, verdicts |-> verdicts,
     ret |-> ret]
NoGate == Gate("none", 0, <<>>, {}, 0)
Between(g, pmap) ==
    IF g.stage = "parent"
    THEN [g EXCEPT !.verdicts =
                @ \cup {check_exec(g.pid, pmap, config_map, <<>>).ret}]
    ELSE g

\* handleConnection, one turn of its loop: a line is read, decoded, handled
\* and answered, and the loop goes on to the next line
handleConnection(c, line, errno) ==
    /\ phase = "serving"
    /\ c \in conns
    /\ handlers[c] = Reading
    /\ LET cmd == json_Unmarshal(line)
           r == IF ~cmd.ok
                THEN Result(process_map,
                            IPCResponse(FALSE, <<"Invalid JSON: ", "syntax">>,
                                        <<>>), NoLog)
                ELSE handleCommand(process_map, cmd.cmd, errno)
       IN  /\ process_map' = r.map
           /\ resp' = Handled(c, line, r.response, r.log, r.err)
           /\ gate' = Between(gate, r.map)
    /\ last' = NoHook
    /\ UNCHANGED <<config_map, events, links, phase, conns, exit>>
    /\ UNCHANGED <<pin, socket, done, handlers, streams>>

\* a hang-up that takes the entries of the table with it
handleConnectionEOF_forget(c) ==
    /\ phase = "serving"
    /\ c \in conns
    /\ handlers[c] = Reading
    /\ conns' = conns \ {c}
    /\ handlers' = [k \in conns \ {c} |-> handlers[k]]
    /\ UNCHANGED gate
    /\ streams' = [streams EXCEPT ![c] = NoStream]
    /\ last' = NoHook
    /\ process_map' = EmptyMap
    /\ UNCHANGED <<config_map, events, links, phase, resp, exit>>
    /\ UNCHANGED <<pin, socket, done>>

\* a read failure on one connection that ends every handler
handleConnectionEOF_close_all(c) ==
    /\ phase = "serving"
    /\ c \in conns
    /\ handlers[c] = Reading
    /\ conns' = {}
    /\ handlers' = NoHandlers
    /\ UNCHANGED gate
    /\ streams' = NoStreams
    /\ last' = NoHook
    /\ UNCHANGED <<process_map, config_map, events, links, phase, resp, exit>>
    /\ UNCHANGED <<pin, socket, done>>

\* handleConnection, the read fails (the client hung up): the handler
\* returns and its deferred Close runs
handleConnectionEOF(c) ==
    /\ phase = "serving"
    /\ c \in conns
    /\ handlers[c] = Reading
    /\ conns' = conns \ {c}
    /\ handlers' = [k \in conns \ {c} |-> handlers[k]]
    /\ UNCHANGED gate
    /\ streams' = [streams EXCEPT ![c] = NoStream]
    /\ last' = NoHook
    /\ UNCHANGED <<process_map, config_map, events, links, phase, resp, exit>>
    /\ UNCHANGED <<pin, socket, done>>

\* a shutdown that unpins the process table
Stop_unpin ==
    /\ phase \notin {"failed", "stopped"}
    /\ ~done
    /\ phase' = "stopped"
    /\ links' = NoLinks
    /\ last' = NoHook
    /\ conns' = {}
    /\ handlers' = NoHandlers
    /\ UNCHANGED gate
    /\ streams' = NoStreams
    /\ exit' = Exited(0, "")
    /\ socket' = "none"
    /\ done' = TRUE
    /\ pin' = NoPin
    /\ UNCHANGED <<process_map, config_map, events, resp>>

\* SIGINT or SIGTERM: Stop, then os.Exit(0), with no step of another
\* goroutine in between
Stop ==
    /\ phase \notin {"failed", "stopped"}
    /\ ~done
    /\ phase' = "stopped"
    /\ links' = NoLinks
    /\ last' = NoHook
    /\ conns' = {}
    /\ handlers' = NoHandlers
    /\ UNCHANGED gate
    /\ streams' = NoStreams
    /\ exit' = Exited(0, "")
    /\ socket' = "none"
    /\ done' = TRUE
    /\ UNCHANGED <<process_map, config_map, events, resp, pin>>

\* a Stop that leaves the listener open
signal_Stop_keep_listener ==
    /\ phase \notin {"failed", "stopped"}
    /\ ~done
    /\ done' = TRUE
    /\ links' = NoLinks
    /\ last' = NoHook
    /\ UNCHANGED <<process_map, config_map, events, phase, resp, conns, exit,
                   pin, socket, handlers, streams, gate>>

\* the same signal, goroutine by goroutine.  Stop: d.done is closed, the
\* listener is closed if there is one, the links set so far are closed, the
\* socket path is removed; the main goroutine and the handlers run on
signal_Stop ==
    /\ phase \notin {"failed", "stopped"}
    /\ ~done
    /\ done' = TRUE
    /\ links' = NoLinks
    /\ socket' = "none"
    /\ last' = NoHook
    /\ UNCHANGED <<process_map, config_map, events, phase, resp, conns, exit,
                   pin, handlers, streams, gate>>

\* os.Exit(0) after Stop has returned: the kernel closes what the process
\* still holds (links, listener, connections); a bound socket path stays
signal_Exit ==
    /\ phase \notin {"failed", "stopped"}
    /\ done
    /\ phase' = "stopped"
    /\ exit' = Exited(0, "")
    /\ links' = NoLinks
    /\ conns' = {}
    /\ handlers' = NoHandlers
    /\ UNCHANGED gate
    /\ streams' = NoStreams
    /\ socket' = IF socket = "listening" THEN "stale" ELSE socket
    /\ last' = NoHook
    /\ UNCHANGED <<process_map, config_map, events, resp, pin, done>>

\* the pids and values the command clients send
CmdPids == {100}
AttachOutcomes == {"attached", "absent", "error"}
WellFormed(pids, levels) ==
    {IPCCommand("PING", <<>>, <<>>, <<>>),
     IPCCommand("GET_STATE", <<>>, <<>>, <<>>)}
        \cup {IPCCommand("UPDATE_TAINT", <<p>>, <<l>>, <<>>) :
                p \in pids, l \in levels}
        \cup {IPCCommand("CLEAR_TAINT", <<p>>, <<>>, <<>>) : p \in pids}
        \cup {IPCCommand("REGISTER_AGENT", <<p>>, <<>>, <<Str_agent>>) :
                p \in pids}
Commands == WellFormed(CmdPids, TaintLevels)
CmdConns == {1}

\* the files opened while the daemon runs
OpenedFiles == {FileArg(TRUE, TRUE, Str_id_rsa), FileArg(TRUE, TRUE, Str_notes_txt)}

\* the lines a client sends: the well-formed commands, a command the
\* dispatcher does not know, and a line that is not JSON
Lines ==
    {Line(TRUE, cmd) : cmd \in Commands}
        \cup {Line(TRUE, IPCCommand("SHUTDOWN", <<100>>, <<>>, <<>>)), BadLine}

Init ==
    /\ process_map = EmptyMap
    /\ config_map = ConfigMap(ZeroConfig)
    /\ events = <<>>
    /\ links = NoLinks
    /\ phase = "new"
    /\ resp = NoResp
    /\ last = NoHook
    /\ conns = {}
    /\ exit = NoExit
    /\ pin = NoPin
    /\ socket = "none"
    /\ done = FALSE
    /\ handlers = NoHandlers
    /\ streams = NoStreams
    /\ gate = NoGate

Next ==
    \/ \E memlock_ok \in BOOLEAN, mkdir_ok \in BOOLEAN :
            StartPrepare(memlock_ok, mkdir_ok)
    \/ \E load_ok \in BOOLEAN, pin_ok \in BOOLEAN, exec \in AttachOutcomes,
          file \in AttachOutcomes, task \in AttachOutcomes :
            loadBPF(load_ok, pin_ok, exec, file, task)
    \/ \E ok \in BOOLEAN : initConfig(ok)
    \/ \E ok \in BOOLEAN : startSocketServer(ok)
    \/ \E c \in CmdConns : acceptConnections(c)
    \/ \E c \in CmdConns, line \in Lines :
            handleConnection(c, line, NoErrno)
    \/ \E c \in CmdConns : handleConnectionEOF(c)
    \/ Stop
    \/ \E pid \in Pids : telos_check_exec(pid)
    \/ \E pid \in Pids, file \in OpenedFiles : telos_check_file(pid, file)
    \/ \E pid \in Pids : telos_task_alloc(pid)

Spec == Init /\ [][Next]_vars

\* ------------------------------------------------------------------------
\* The command server alone, from the state the bootstrap leaves, under
\* every line a client can send
\* ------------------------------------------------------------------------
ServePids == {100, 101}
ServeConns == {1, 2}
ServeLevels == TaintLevels \cup {7}
ServeCommands ==
    WellFormed(ServePids, ServeLevels)
        \cup {IPCCommand("UPDATE_TAINT", <<>>, <<TAINT_HIGH>>, <<>>),
              IPCCommand("UPDATE_TAINT", <<100>>, <<>>, <<>>),
              IPCCommand("CLEAR_TAINT", <<>>, <<>>, <<>>),
              IPCCommand("REGISTER_AGENT", <<>>, <<>>, <<Str_agent>>),
              IPCCommand("SHUTDOWN", <<100>>, <<>>, <<>>),
              NoCommand}
ServeLines == {Line(TRUE, cmd) : cmd \in ServeCommands} \cup {BadLine}

ServeInit ==
    /\ process_map = EmptyMap
    /\ config_map = ConfigMap(DefaultConfig)
    /\ events = <<>>
    /\ links = BPFLinks(TRUE, TRUE, TRUE)
    /\ phase = "serving"
    /\ resp = NoResp
    /\ last = NoHook
    /\ conns = {}
    /\ exit = NoExit
    /\ pin = OwnPin
    /\ socket = "listening"
    /\ done = FALSE
    /\ handlers = NoHandlers
    /\ streams = NoStreams
    /\ gate = NoGate

ServeNext ==
    \/ \E c \in ServeConns : acceptConnections(c)
    \/ \E c \in ServeConns, line \in ServeLines :
            handleConnection(c, line, NoErrno)
    \/ \E c \in ServeConns : handleConnectionEOF(c)

ServeSpec == ServeInit /\ [][ServeNext]_vars

\* the same server when the kernel may fail any one map call
FaultNext ==
    \/ \E c \in ServeConns : acceptConnections(c)
    \/ \E c \in ServeConns, line \in ServeLines, errno \in Errnos :
            handleConnection(c, line, errno)
    \/ \E c \in ServeConns : handleConnectionEOF(c)

FaultSpec == ServeInit /\ [][FaultNext]_vars

\* ------------------------------------------------------------------------
\* The engine alone, over every table and Config it can be handed
\* ------------------------------------------------------------------------
Tables ==
    UNION {{[p \in S |-> process_info_t(p, f[p], 0, <<>>)] :
                f \in [S -> TaintLevels]} : S \in SUBSET Pids}

EngineInit(configs) ==
    /\ process_map \in Tables
    /\ config_map \in {ConfigMap(c) : c \in configs}
    /\ events = <<>>
    /\ links = BPFLinks(TRUE, TRUE, TRUE)
    /\ phase = "serving"
    /\ resp = NoResp
    /\ last = NoHook
    /\ conns = {}
    /\ exit = NoExit
    /\ pin = OwnPin
    /\ socket = "listening"
    /\ done = FALSE
    /\ handlers = NoHandlers
    /\ streams = NoStreams
    /\ gate = NoGate

\* the pre-execution gate and the process-creation observer
ExecConfigs ==
    {telos_config_t(e, TAINT_HIGH, en) : e \in TaintLevels, en \in {0, 1}}

ExecInit == EngineInit(ExecConfigs)

ExecNext ==
    \/ \E pid \in Pids : telos_check_exec(pid)
    \/ \E pid \in Pids : telos_task_alloc(pid)

ExecSpec == ExecInit /\ [][ExecNext]_vars

\* the file-open gate
FileConfigs ==
    {telos_config_t(TAINT_MEDIUM, o, en) :
        o \in {TAINT_MEDIUM, TAINT_HIGH, TAINT_CRITICAL}, en \in {0, 1}}

FileInit == EngineInit(FileConfigs)

FileNext ==
    \E pid \in Pids, file \in FileArgs : telos_check_file(pid, file)

FileSpec == FileInit /\ [][FileNext]_vars

\* ------------------------------------------------------------------------
\* Properties
\* ------------------------------------------------------------------------
\* the reference resolver: own entry, else the parent's entry, else CLEAN
Tracked(pid) == pid \in DOMAIN process_map
TaintOf(pid) == process_map[pid].taint_level
RefTaint(pid) ==
    IF Tracked(pid) THEN TaintOf(pid)
    ELSE IF Tracked(real_parent_tgid(pid)) THEN TaintOf(real_parent_tgid(pid))
    ELSE TAINT_CLEAN

Cfg == config_map[0]
Enforcing == Cfg.enabled # 0
DENY == -EPERM
ALLOW == 0

ExecSeen == last.hook = "exec"
FileSeen == last.hook = "file"
ExecExceeded == ExecSeen /\ RefTaint(last.pid) > Cfg.max_taint_for_exec

\* what the observed invocation did to the event channel
NoEventAppended == Len(events) = last.before
OneEventAppended == Len(events) = last.before + 1
HadRoom == last.before < RingCap
Appended == events[Len(events)]

ExecEventOf(pid) ==
    event_t(pid, RefTaint(pid), 1, bpf_get_current_comm(pid), Str_execve)
OpenEventOf(pid) ==
    event_t(pid, TaintOf(pid), 1, bpf_get_current_comm(pid), Str_open)

\* C1 as stated: effective taint above max_taint_for_exec with enforcement
\* enabled gives DENY and exactly one Event (blocked, "execve") appended by
\* the invocation, whatever the state of the event channel.
C1_DenyAndOneEvent ==
    (ExecExceeded /\ Enforcing) =>
        /\ last.ret = DENY
        /\ OneEventAppended
        /\ Appended = ExecEventOf(last.pid)

\* C1 amended: the verdict is DENY in every case; exactly one Event (blocked,
\* "execve") is appended when the channel has room, and none when it is full.
C1_DenyAndOneEventIfRoom ==
    (ExecExceeded /\ Enforcing) =>
        /\ last.ret = DENY
        /\ IF HadRoom
           THEN OneEventAppended /\ Appended = ExecEventOf(last.pid)
           ELSE NoEventAppended

\* C1 witness: a child without an entry is denied on its parent's taint, and
\* the Event is in the channel
C1_Witness ==
    /\ ExecExceeded /\ Enforcing
    /\ ~Tracked(last.pid)
    /\ last.ret = DENY
    /\ OneEventAppended
    /\ Appended.action = Str_execve

\* C2 as stated: above the threshold in audit-only mode (enabled = 0) the
\* gate returns ALLOW and an Event with blocked = true is still produced.
C2_AuditAllowsAndLogs ==
    (ExecExceeded /\ ~Enforcing) =>
        /\ last.ret = ALLOW
        /\ OneEventAppended
        /\ Appended.blocked = 1

\* C2 amended: the verdict is ALLOW in every case; the Event (blocked = true)
\* is produced when the channel has room and dropped when it is full.
C2_AuditAllowsAndLogsIfRoom ==
    (ExecExceeded /\ ~Enforcing) =>
        /\ last.ret = ALLOW
        /\ IF HadRoom
           THEN OneEventAppended /\ Appended = ExecEventOf(last.pid)
           ELSE NoEventAppended

\* C2 witness: an audit-only invocation above the threshold, allowed and logged
C2_Witness ==
    /\ ExecExceeded /\ ~Enforcing
    /\ last.ret = ALLOW
    /\ OneEventAppended
    /\ Appended.blocked = 1

\* C3: when the effective taint does not exceed max_taint_for_exec the gate
\* returns ALLOW and appends no Event; DENY is returned only above the
\* threshold with enforcement enabled.
C3_AllowWithoutEventAtOrBelow ==
    /\ (ExecSeen /\ ~ExecExceeded) => (last.ret = ALLOW /\ NoEventAppended)
    /\ (ExecSeen /\ last.ret = DENY) => (ExecExceeded /\ Enforcing)

\* C3 witness: a tracked caller whose taint equals a non-zero threshold, under
\* enforcement, allowed
C3_Witness ==
    /\ ExecSeen /\ Enforcing
    /\ Tracked(last.pid)
    /\ TaintOf(last.pid) = Cfg.max_taint_for_exec
    /\ Cfg.max_taint_for_exec = TAINT_MEDIUM
    /\ last.ret = ALLOW

\* C4: under the default Config, the exec of pid 100 that follows a successful
\* REGISTER_AGENT(100, "agent") is allowed, the one that follows a successful
\* UPDATE_TAINT(100, HIGH) is denied, and the one that follows a successful
\* UPDATE_TAINT(100, LOW) is allowed.
C4_EndToEnd ==
    (ExecSeen /\ last.pid = 100 /\ Cfg = DefaultConfig
        /\ resp.response.success) =>
        /\ resp.cmd = IPCCommand("REGISTER_AGENT", <<100>>, <<>>, <<Str_agent>>)
              => last.ret = ALLOW
        /\ resp.cmd = IPCCommand("UPDATE_TAINT", <<100>>, <<TAINT_HIGH>>, <<>>)
              => last.ret = DENY
        /\ resp.cmd = IPCCommand("UPDATE_TAINT", <<100>>, <<TAINT_LOW>>, <<>>)
              => last.ret = ALLOW

\* C4 witness: pid 100 is allowed right after UPDATE_TAINT(100, LOW), and the
\* channel holds the Event of its earlier denial at HIGH
C4_Witness ==
    /\ ExecSeen /\ last.pid = 100 /\ last.ret = ALLOW
    /\ resp.cmd = IPCCommand("UPDATE_TAINT", <<100>>, <<TAINT_LOW>>, <<>>)
    /\ resp.response.success
    /\ events # <<>>
    /\ events[1] = event_t(100, TAINT_HIGH, 1, Str_agent, Str_execve)

\* C5: the gate decides on the reference resolver's taint (own entry, else
\* the parent's, else CLEAN): it denies exactly when that taint exceeds the
\* threshold under enforcement, the Event it appends carries that taint, and
\* a caller with its own CLEAN entry is allowed whatever its parent's entry.
C5_ResolverIsSelfThenParent ==
    ExecSeen =>
        /\ last.ret = DENY <=> (RefTaint(last.pid) > Cfg.max_taint_for_exec
                                /\ Enforcing)
        /\ OneEventAppended => Appended.taint_level = RefTaint(last.pid)
        /\ (Tracked(last.pid) /\ TaintOf(last.pid) = TAINT_CLEAN)
              => last.ret = ALLOW

\* C5 witness: pid 101 has its own CLEAN entry, its parent 100 is CRITICAL,
\* enforcement is on with threshold MEDIUM, and 101 is allowed
C5_Witness ==
    /\ ExecSeen /\ last.pid = 101 /\ Enforcing
    /\ Cfg.max_taint_for_exec = TAINT_MEDIUM
    /\ Tracked(101) /\ TaintOf(101) = TAINT_CLEAN
    /\ Tracked(100) /\ TaintOf(100) = TAINT_CRITICAL
    /\ last.ret = ALLOW

C7_GrandchildBlocked ==
    (ExecSeen /\ last.pid = 102 /\ Enforcing
        /\ Tracked(100) /\ TaintOf(100) > Cfg.max_taint_for_exec) =>
        last.ret = DENY

HasIdPrefix(name) == Len(name) >= 3 /\ SubSeq(name, 1, 3) = Str_id_
NameSeen == FileSeen /\ last.file.dentry /\ last.file.readable
CriticalOpen ==
    NameSeen /\ Tracked(last.pid) /\ TaintOf(last.pid) = TAINT_CRITICAL

\* C8 as stated: for a pid with a direct CRITICAL entry, a file name beginning
\* with "id_" gives DENY under enforcement and ALLOW without it, with exactly
\* one Event ("open", blocked) appended either way; any other name gives
\* ALLOW and no Event.
C8_CriticalOpen ==
    CriticalOpen =>
        IF HasIdPrefix(last.file.name)
        THEN /\ last.ret = (IF Enforcing THEN DENY ELSE ALLOW)
             /\ OneEventAppended
             /\ Appended = OpenEventOf(last.pid)
        ELSE last.ret = ALLOW /\ NoEventAppended

\* C8 amended: as stated, except that the Event is appended when the channel
\* has room and dropped, with the same verdict, when it is full.
C8_CriticalOpenIfRoom ==
    CriticalOpen =>
        IF HasIdPrefix(last.file.name)
        THEN /\ last.ret = (IF Enforcing THEN DENY ELSE ALLOW)
             /\ IF HadRoom
                THEN OneEventAppended /\ Appended = OpenEventOf(last.pid)
                ELSE NoEventAppended
        ELSE last.ret = ALLOW /\ NoEventAppended

\* C8 witness: a CRITICAL pid is denied id_rsa under enforcement and the
\* "open" Event is in the channel
C8_Witness ==
    /\ CriticalOpen /\ Enforcing
    /\ last.file.name = Str_id_rsa
    /\ last.ret = DENY
    /\ OneEventAppended
    /\ Appended.action = Str_open

C10_NoParentFallbackOnOpen ==
    (FileSeen /\ ~Tracked(last.pid)) => (last.ret = ALLOW /\ NoEventAppended)

\* C10 witness: pid 101 has no entry, its parent 100 is CRITICAL, enforcement
\* is on, and 101 opens id_rsa
C10_Witness ==
    /\ NameSeen /\ Enforcing
    /\ last.pid = 101 /\ ~Tracked(101)
    /\ Tracked(100) /\ TaintOf(100) = TAINT_CRITICAL
    /\ last.file.name = Str_id_rsa
    /\ last.ret = ALLOW

\* ------------------------------------------------------------------------
\* Properties of the command protocol
\* ------------------------------------------------------------------------
UpdateCmd(p, l) == IPCCommand("UPDATE_TAINT", <<p>>, <<l>>, <<>>)
ClearCmd(p) == IPCCommand("CLEAR_TAINT", <<p>>, <<>>, <<>>)
RegisterCmd(p) == IPCCommand("REGISTER_AGENT", <<p>>, <<>>, <<Str_agent>>)
PingCmd == IPCCommand("PING", <<>>, <<>>, <<>>)
GetStateCmd == IPCCommand("GET_STATE", <<>>, <<>>, <<>>)

\* the table pmap with no entry for p
Without(pmap, p) == [k \in DOMAIN pmap \ {p} |-> pmap[k]]

\* the last line answered decoded to cmd
Answered(cmd) == resp.valid /\ resp.cmd = cmd
Succeeded == resp.response.success

\* C11: for every pid, UPDATE_TAINT(pid, CRITICAL) followed by
\* CLEAR_TAINT(pid), handled from any reachable table, both succeed and leave
\* the table as it is without an entry for pid, and the pre-execution gate
\* then allows pid, with no Event, when its parent has no entry; and whenever
\* the last command answered is CLEAR_TAINT(pid), pid has no entry and an exec
\* by pid with no tracked parent has been allowed.
C11_ClearUndoesUpdate ==
    \A p \in Pids :
        /\ LET upd == handleCommand(process_map,
                                    UpdateCmd(p, TAINT_CRITICAL), NoErrno)
               clr == handleCommand(upd.map, ClearCmd(p), NoErrno)
           IN  /\ upd.response.success
               /\ upd.map[p].taint_level = TAINT_CRITICAL
               /\ clr.response.success
               /\ clr.map = Without(process_map, p)
               /\ real_parent_tgid(p) \notin DOMAIN clr.map =>
                    check_exec(p, clr.map, config_map, events)
                        = [ring |-> events, ret |-> ALLOW]
        /\ Answered(ClearCmd(p)) =>
               /\ Succeeded
               /\ ~Tracked(p)
               /\ (ExecSeen /\ last.pid = p /\ ~Tracked(real_parent_tgid(p)))
                     => (last.ret = ALLOW /\ NoEventAppended)

\* C11 witness: pid 100 was denied while CRITICAL (its Event is in the
\* channel), CLEAR_TAINT(100) was answered, and its next exec is allowed
C11_Witness ==
    /\ Answered(ClearCmd(100)) /\ Succeeded
    /\ events = <<event_t(100, TAINT_CRITICAL, 1, Str_agent, Str_execve)>>
    /\ ~Tracked(100)
    /\ ExecSeen /\ last.pid = 100 /\ last.ret = ALLOW

NotTracked == resp.log = "[CLEAR] (was not tracked)"

\* C12: CLEAR_TAINT is idempotent.  Every CLEAR_TAINT(pid) answers success
\* and leaves the table as it was without an entry for pid; on a pid with no
\* entry it leaves the whole table unchanged; and a second CLEAR_TAINT(pid)
\* applied to the table it leaves answers success again and changes nothing.
C12_ClearIdempotent ==
    [][\A c \in ServeConns, p \in ServePids :
          handleConnection(c, Line(TRUE, ClearCmd(p)), NoErrno) =>
              /\ resp'.response.success
              /\ process_map' = Without(process_map, p)
              /\ ~Tracked(p) => (NotTracked' /\ process_map' = process_map)
              /\ LET again == handleCommand(process_map', ClearCmd(p), NoErrno)
                 IN  again.response.success /\ again.map = process_map'
      ]_vars

\* C12 witness: CLEAR_TAINT(101) was answered with success for a pid that had
\* no entry, and the entry of pid 100 is still there
C12_Witness ==
    /\ Answered(ClearCmd(101)) /\ Succeeded /\ NotTracked
    /\ ~Tracked(101)
    /\ Tracked(100) /\ TaintOf(100) = TAINT_HIGH

\* what GET_STATE reports for the table pmap
Report(pmap) ==
    [processes |-> [key \in DOMAIN pmap |->
                       [taint_level |-> pmap[key].taint_level,
                        sandboxed |-> pmap[key].is_sandboxed]],
     count |-> Cardinality(DOMAIN pmap)]

\* C13: last write wins.  A successful UPDATE_TAINT(pid, level) leaves pid
\* with exactly that level and a successful REGISTER_AGENT(pid) leaves it at
\* CLEAN, whatever was written before, with every other entry untouched; a
\* command that fails leaves the table unchanged; and GET_STATE answers with
\* one report per pid in the table and no other, each with the level the
\* table holds, and with their count.
C13_LastWriteWins ==
    [][\A c \in ServeConns, line \in ServeLines :
          handleConnection(c, line, NoErrno) =>
              /\ \A p \in ServePids :
                    /\ (line.valid /\ resp'.response.success
                          /\ \E l \in ServeLevels : line.cmd = UpdateCmd(p, l))
                        => /\ Tracked(p)'
                           /\ TaintOf(p)' = line.cmd.data.taint_level[1]
                           /\ Without(process_map', p) = Without(process_map, p)
                    /\ (line.valid /\ resp'.response.success
                          /\ line.cmd = RegisterCmd(p))
                        => /\ Tracked(p)'
                           /\ TaintOf(p)' = TAINT_CLEAN
                           /\ Without(process_map', p) = Without(process_map, p)
              /\ ~resp'.response.success => process_map' = process_map
              /\ (line.valid /\ line.cmd = GetStateCmd) =>
                    /\ resp'.response = IPCResponse(TRUE, <<>>,
                                                    <<Report(process_map)>>)
                    /\ process_map' = process_map
      ]_vars

\* C13 witness: GET_STATE reports pid 100 at LOW after it was written, next
\* to pid 101, and nothing else
C13_Witness ==
    /\ Answered(GetStateCmd) /\ Succeeded
    /\ DOMAIN resp.response.data[1].processes = {100, 101}
    /\ resp.response.data[1].processes[100].taint_level = TAINT_LOW
    /\ resp.response.data[1].count = 2
    /\ Tracked(100) /\ TaintOf(100) = TAINT_LOW

KnownCommands ==
    {"PING", "UPDATE_TAINT", "CLEAR_TAINT", "REGISTER_AGENT", "GET_STATE"}

\* the handler of connection c will take its next line
StillServed(c) == phase = "serving" /\ c \in conns

\* C14: a line that decodes to a command with an unknown name X is answered
\* {success: false, error: "Unknown command: X"}; the process table and the
\* Config are unchanged; and the connection stays open, so that a PING that
\* follows on it is handled and answered with success.
C14_UnknownCommand ==
    [][\A c \in ServeConns, line \in ServeLines :
          (/\ handleConnection(c, line, NoErrno)
           /\ line.valid
           /\ line.cmd.command \notin KnownCommands) =>
              /\ resp'.conn = c
              /\ resp'.response =
                    IPCResponse(FALSE,
                                <<"Unknown command: ", line.cmd.command>>, <<>>)
              /\ process_map' = process_map
              /\ config_map' = config_map
              /\ StillServed(c)'
              /\ handleCommand(process_map', PingCmd, NoErrno).response
                    = IPCResponse(TRUE, <<>>, <<"pong">>)
      ]_vars

\* C14 witness: SHUTDOWN was answered as unknown on connection 1, which is
\* still open, and the table still holds the entry written before
C14_Witness ==
    /\ Answered(IPCCommand("SHUTDOWN", <<100>>, <<>>, <<>>))
    /\ resp.response.error = <<"Unknown command: ", "SHUTDOWN">>
    /\ ~Succeeded
    /\ resp.conn = 1 /\ StillServed(1)
    /\ Tracked(100) /\ TaintOf(100) = TAINT_CRITICAL

\* a line the handlers reject: bytes that do not decode, or an UPDATE_TAINT,
\* CLEAR_TAINT or REGISTER_AGENT without a numeric pid, or an UPDATE_TAINT
\* without a numeric taint_level
Malformed(line) ==
    \/ ~line.valid
    \/ /\ line.cmd.command \in {"UPDATE_TAINT", "CLEAR_TAINT", "REGISTER_AGENT"}
       /\ line.cmd.data.pid = <<>>
    \/ /\ line.cmd.command = "UPDATE_TAINT"
       /\ line.cmd.data.taint_level = <<>>

C16_TaintInRange ==
    \A p \in DOMAIN process_map :
        /\ process_map[p].taint_level \in TAINT_CLEAN..TAINT_CRITICAL
        /\ process_map[p].is_sandboxed \in {0, 1}

\* the map call of the last command answered failed: a Put that failed, or a
\* Delete that failed for another reason than the key being absent
MapCallFailed ==
    /\ resp.cmd.command \in {"UPDATE_TAINT", "REGISTER_AGENT", "CLEAR_TAINT"}
    /\ resp.err \notin {NoErrno, "ENOENT"}

\* C17 as stated: every failure of a table put or delete during UPDATE_TAINT,
\* REGISTER_AGENT or CLEAR_TAINT is answered with success = false and an
\* error text, and the daemon keeps serving; a CLEAR_TAINT whose delete fails
\* for another reason than the key being absent does not report success.
C17_FailuresSurfaced ==
    MapCallFailed =>
        /\ ~Succeeded
        /\ resp.response.error # <<>>
        /\ phase = "serving"

\* ------------------------------------------------------------------------
\* Properties of the bootstrap
\* ------------------------------------------------------------------------
Failed == phase = "failed"
Serving == phase = "serving"

\* C18 as stated: in every reachable state in which the listener accepts
\* connections the pre-execution gate is attached; no bootstrap path, a failed
\* attach or an engine artifact without the pre-execution program, reaches
\* the serving state without it.
C18_ExecGateMandatory == Serving => links.CheckExec

\* C19: when creating the pin directory of the tables, loading the engine
\* (which creates the tables) or attaching the pre-execution hook fails, the
\* daemon goes to its failed state; in that state it has exit status 1, no
\* hook attached, no connection accepted and no command answered, and it
\* never leaves it.
C19_BootstrapErrorIsFatal ==
    [][/\ StartPrepare(TRUE, FALSE) => Failed'
       /\ \A exec \in AttachOutcomes, file \in AttachOutcomes,
             task \in AttachOutcomes :
                /\ \A pin_ok \in BOOLEAN :
                      /\ loadBPF(FALSE, pin_ok, exec, file, task) => Failed'
                      /\ loadBPF(TRUE, pin_ok, "error", file, task) => Failed'
       /\ Failed' =>
            /\ exit' # NoExit /\ exit'[1].code # 0
            /\ links' = NoLinks
            /\ conns' = {}
            /\ resp' = NoResp
       /\ Failed => Failed'
      ]_vars

\* C19 witness: the attach of the pre-execution hook failed; the process has
\* exited with status 1 and has handled no command
C19_Witness ==
    /\ Failed
    /\ exit = Exited(1, "failed to load BPF: attach check_exec")
    /\ resp = NoResp /\ conns = {}
    /\ links = NoLinks

\* C20: a failed attach of the file-open gate or of the process-creation
\* observer does not end the bootstrap: with the pre-execution gate attached,
\* loadBPF succeeds whatever the two other attaches give, leaving exactly the
\* failed hooks unattached; initConfig then writes the default Config and
\* startSocketServer starts the listener without touching the links; and in
\* the serving state the Config is the default one, which enforces.
C20_OptionalAttachNotFatal ==
    [][/\ \A pin_ok \in BOOLEAN, file \in AttachOutcomes,
             task \in AttachOutcomes :
             loadBPF(TRUE, pin_ok, "attached", file, task) =>
                /\ phase' = "loaded"
                /\ exit' = NoExit
                /\ links' = BPFLinks(TRUE, file = "attached", task = "attached")
       /\ initConfig(TRUE) =>
             /\ phase' = "configured"
             /\ config_map' = ConfigMap(DefaultConfig)
             /\ links' = links
       /\ startSocketServer(TRUE) =>
             /\ Serving'
             /\ links' = links
             /\ config_map' = config_map
       /\ Serving' => (Cfg' = DefaultConfig /\ Enforcing')
      ]_vars

\* C20 witness: the daemon serves a connection with only the pre-execution
\* gate attached, and the gate has just denied the exec of a tainted pid
C20_Witness ==
    /\ Serving /\ conns = {1}
    /\ links = BPFLinks(TRUE, FALSE, FALSE)
    /\ Cfg = DefaultConfig
    /\ Tracked(100) /\ TaintOf(100) = TAINT_HIGH
    /\ ExecSeen /\ last.pid = 100 /\ last.ret = DENY

\* ------------------------------------------------------------------------
\* Properties of the life cycle
\* ------------------------------------------------------------------------
BootstrapOrder ==
    {<<"new", "prepared">>, <<"prepared", "loaded">>,
     <<"loaded", "configured">>, <<"configured", "serving">>}
BeforeServing == {"new", "prepared", "loaded", "configured"}
ConfigWritten == config_map = ConfigMap(DefaultConfig)

\* C21: the bootstrap goes through its steps in the one order limits lifted,
\* engine loaded (tables created, process table pinned, then hooks attached),
\* default Config written, listener started: the phase only moves one step
\* forward, or to failed from before serving, or to stopped; no hook is
\* attached and no pin made before the load; a load that fails at the attach
\* of the pre-execution hook has made the pin already; the Config is written
\* only after the load; a listener, a connection or an answered command
\* exists only with the default Config written; and a failed bootstrap does
\* none of the later steps.
C21_BootstrapOrder ==
    [][/\ phase' # phase =>
             \/ <<phase, phase'>> \in BootstrapOrder
             \/ phase \in BeforeServing /\ Failed'
             \/ phase \notin {"failed", "stopped"} /\ phase' = "stopped"
       /\ phase' \in {"new", "prepared"} =>
             (links' = NoLinks /\ ~pin'.exists /\ ~ConfigWritten')
       /\ phase' = "loaded" => ~ConfigWritten'
       /\ \A file \in AttachOutcomes, task \in AttachOutcomes :
             loadBPF(TRUE, TRUE, "error", file, task) =>
                (pin'.exists /\ links' = NoLinks)
       /\ (socket' = "listening" \/ conns' # {} \/ resp' # NoResp) =>
             (ConfigWritten' /\ phase' \in {"serving", "stopped"})
       /\ Failed =>
             UNCHANGED <<process_map, config_map, links, pin, socket, conns,
                         resp>>
      ]_vars

\* C21 witness: a command has been answered by a daemon that went through
\* every step: pin made, the three hooks attached, the default Config written
C21_Witness ==
    /\ Serving /\ socket = "listening"
    /\ Answered(PingCmd) /\ Succeeded
    /\ pin = OwnPin
    /\ links = BPFLinks(TRUE, TRUE, TRUE)
    /\ ConfigWritten

\* C22 as stated: a hook invocation that runs before the default Config is
\* written (between the attach of the hooks and initConfig) finds no Config
\* value and falls back to the built-in defaults: the pre-execution gate uses
\* the threshold MEDIUM and both gates enforce.
C22_ConservativeWithoutConfig ==
    ((ExecSeen \/ FileSeen) /\ ~ConfigWritten) =>
        /\ exec_max_taint(config_map) = TAINT_MEDIUM
        /\ gate_enforce(config_map) # 0

\* C23: from the start of the listener until shutdown the Config table holds
\* the defaults {MEDIUM, HIGH, enabled}: the listener is started only over
\* the default Config, and no step taken while the daemon serves (a command
\* of any kind, an unknown command or a malformed line included, an accept,
\* a hang-up, a hook) changes it.
C23_ConfigConstant ==
    [][/\ (socket' = "listening" \/ phase' = "serving") => ConfigWritten'
       /\ phase = "serving" => config_map' = config_map]_vars

C23_Witness ==
    /\ Serving
    /\ resp.valid /\ resp.cmd.command = "SHUTDOWN"
    /\ ~Succeeded
    /\ process_map # EmptyMap
    /\ ConfigWritten

\* C24: the event channel never blocks a hook and never changes a verdict.
\* A pre-execution check that finds the channel full leaves the channel's
\* contents as they were (its own event is dropped) and returns the verdict
\* it returns from the same tables when the channel has room; and no step
\* removes or rewrites an event already in the channel.
C24_FullChannelDrops ==
    [][/\ \A pid \in Pids :
            (telos_check_exec(pid) /\ Len(events) >= RingCap) =>
                /\ events' = events
                /\ last'.ret =
                     check_exec(pid, process_map, config_map, <<>>).ret
       /\ Len(events') >= Len(events)
       /\ SubSeq(events', 1, Len(events)) = events]_vars

C24_Witness ==
    /\ ExecExceeded
    /\ Enforcing
    /\ last.before >= RingCap
    /\ last.ret = DENY
    /\ Len(events) = RingCap
    /\ events[1].pid # last.pid

\* ------------------------------------------------------------------------
\* A termination signal at any point of the bootstrap or of serving: the
\* signal goroutine (Stop, then os.Exit) runs beside the main goroutine,
\* which goes on with Start
\* ------------------------------------------------------------------------
StopNext ==
    \/ \E memlock_ok \in BOOLEAN, mkdir_ok \in BOOLEAN :
            StartPrepare(memlock_ok, mkdir_ok)
    \/ \E load_ok \in BOOLEAN, pin_ok \in BOOLEAN, exec \in AttachOutcomes,
          file \in AttachOutcomes, task \in AttachOutcomes :
            loadBPF(load_ok, pin_ok, exec, file, task)
    \/ \E ok \in BOOLEAN : initConfig(ok)
    \/ \E ok \in BOOLEAN : startSocketServer(ok)
    \/ \E c \in CmdConns : acceptConnections(c)
    \/ \E c \in CmdConns, line \in Lines : handleConnection(c, line, NoErrno)
    \/ \E c \in CmdConns : handleConnectionEOF(c)
    \/ signal_Stop
    \/ signal_Exit

StopSpec == Init /\ [][StopNext]_vars

\* C25 as stated: whenever the termination signal arrives after the handler
\* is installed, the bootstrap included, the process has by its exit
\* detached every hook, closed the listener and every connection, and the
\* socket path no longer exists.
C25_SignalCleansUp ==
    exit = Exited(0, "") =>
        /\ links = NoLinks
        /\ conns = {}
        /\ socket = "none"

\* ------------------------------------------------------------------------
\* Stop and start cycles: the daemon process is started again after it has
\* exited, over whatever the previous run left in the filesystem
\* ------------------------------------------------------------------------
\* main in a new process: a fresh daemon (NewTelosDaemon); the tables of the
\* previous process live on only through a pin that process made
main ==
    /\ phase \in {"stopped", "failed"}
    /\ phase' = "new"
    /\ exit' = NoExit
    /\ done' = FALSE
    /\ resp' = NoResp
    /\ last' = NoHook
    /\ conns' = {}
    /\ handlers' = NoHandlers
    /\ UNCHANGED gate
    /\ streams' = NoStreams
    /\ links' = NoLinks
    /\ pin' = IF pin.own THEN StalePin(process_map) ELSE pin
    /\ process_map' = EmptyMap
    /\ config_map' = ConfigMap(ZeroConfig)
    /\ events' = <<>>
    /\ UNCHANGED socket

\* make clean, run between two runs of the daemon: rm -f of the pins and of
\* the socket path
make_clean ==
    /\ phase \in {"stopped", "failed"}
    /\ pin' = NoPin
    /\ socket' = "none"
    /\ UNCHANGED <<process_map, config_map, events, links, phase, resp, last,
                   conns, exit, done, handlers, streams, gate>>

RestartPid == 100
RestartLines ==
    {Line(TRUE, IPCCommand("UPDATE_TAINT", <<RestartPid>>, <<l>>, <<>>)) :
        l \in {TAINT_LOW, TAINT_HIGH}}
        \cup {Line(TRUE, IPCCommand("CLEAR_TAINT", <<RestartPid>>, <<>>, <<>>))}

RestartNext ==
    \/ \E memlock_ok \in BOOLEAN, mkdir_ok \in BOOLEAN :
            StartPrepare(memlock_ok, mkdir_ok)
    \/ \E load_ok \in BOOLEAN, pin_ok \in BOOLEAN :
            loadBPF(load_ok, pin_ok, "attached", "attached", "attached")
    \/ \E ok \in BOOLEAN : initConfig(ok)
    \/ \E ok \in BOOLEAN : startSocketServer(ok)
    \/ \E c \in CmdConns : acceptConnections(c)
    \/ \E c \in CmdConns, line \in RestartLines :
            handleConnection(c, line, NoErrno)
    \/ \E c \in CmdConns : handleConnectionEOF(c)
    \/ Stop
    \/ main
    \/ make_clean
    \/ telos_check_exec(RestartPid)

RestartSpec == Init /\ [][RestartNext]_vars

\* the table the pin /sys/fs/bpf/telos/process_map names
PinnedTable == IF pin.own THEN process_map ELSE pin.map

\* C26: the pin of the process table, once it exists, is removed by no step
\* of the daemon: not by a command, not by shutdown, not by a failed or a
\* successful later bootstrap.  Only the separate cleanup removes it, so it
\* is there after any number of stop and start cycles.
C26_PinIsNeverRemoved ==
    [][pin.exists => (pin'.exists \/ make_clean)]_vars

C26_Witness ==
    /\ Serving
    /\ pin.exists /\ ~pin.own
    /\ pin.map # EmptyMap
    /\ Answered(ClearCmd(RestartPid))

\* C27 as stated: after a stop and a start that left the pin in place, the
\* table the newly attached engine reads is the pinned table, so a pid set
\* to HIGH before the restart is still denied exec after it with no new
\* command.
C27_TaintSurvivesRestart ==
    (/\ ExecSeen
     /\ Cfg = DefaultConfig
     /\ pin.exists
     /\ last.pid \in DOMAIN PinnedTable
     /\ PinnedTable[last.pid].taint_level = TAINT_HIGH)
        => (process_map = PinnedTable /\ last.ret = DENY)

\* ------------------------------------------------------------------------
\* The connection handlers step by step: the client writes lines ahead of
\* the handler, and the handler's read, its map call and its write of the
\* response are separate steps that interleave with those of the other
\* handler
\* ------------------------------------------------------------------------
MaxLines == 2

\* the client writes a line to its connection
Send(c, line) ==
    /\ phase = "serving"
    /\ c \in conns
    /\ Len(streams[c].sent) < MaxLines
    /\ UNCHANGED gate
    /\ streams' = [streams EXCEPT ![c].sent = Append(@, line),
                                  ![c].inbox = Append(@, line)]
    /\ UNCHANGED <<process_map, config_map, events, links, phase, resp, last,
                   conns, exit, pin, socket, done, handlers>>

\* the line a handler has in hand, and a handler that has taken line
InHand(turn) == Line(turn.valid, turn.cmd)
Taken(c, line) ==
    Handler("handle", Handled(c, line, IPCResponse(FALSE, <<>>, <<>>), NoLog,
                              NoErrno))

\* a reader that hands over the newest line waiting
ReadBytes_newest(c) ==
    /\ phase = "serving"
    /\ c \in conns
    /\ handlers[c] = Reading
    /\ streams[c].inbox # <<>>
    /\ LET inbox == streams[c].inbox
       IN  /\ handlers' = [handlers EXCEPT ![c] = Taken(c, inbox[Len(inbox)])]
           /\ UNCHANGED gate
           /\ streams' = [streams EXCEPT
                             ![c].inbox = SubSeq(inbox, 1, Len(inbox) - 1)]
    /\ UNCHANGED <<process_map, config_map, events, links, phase, resp, last,
                   conns, exit, pin, socket, done>>

\* reader.ReadBytes('\n') returns the oldest line not yet read
ReadBytes(c) ==
    /\ phase = "serving"
    /\ c \in conns
    /\ handlers[c] = Reading
    /\ streams[c].inbox # <<>>
    /\ handlers' = [handlers EXCEPT ![c] = Taken(c, Head(streams[c].inbox))]
    /\ UNCHANGED gate
    /\ streams' = [streams EXCEPT ![c].inbox = Tail(@)]
    /\ UNCHANGED <<process_map, config_map, events, links, phase, resp, last,
                   conns, exit, pin, socket, done>>

\* what the handler does with a line on the table pmap: the decode and, for
\* a line that decodes, the dispatch with its one map call
Handle(pmap, line, errno) ==
    LET cmd == json_Unmarshal(line)
    IN  IF ~cmd.ok
        THEN Result(pmap,
                    IPCResponse(FALSE, <<"Invalid JSON: ", "syntax">>, <<>>),
                    NoLog)
        ELSE handleCommand(pmap, cmd.cmd, errno)

handleLine(c, errno) ==
    /\ phase = "serving"
    /\ c \in conns
    /\ handlers[c].pc = "handle"
    /\ LET line == InHand(handlers[c].turn)
           r == Handle(process_map, line, errno)
       IN  /\ process_map' = r.map
           /\ handlers' = [handlers EXCEPT ![c] =
                  Handler("send", Handled(c, line, r.response, r.log, r.err))]
    /\ last' = NoHook
    /\ UNCHANGED <<config_map, events, links, phase, resp, conns, exit, pin,
                   socket, done, streams, gate>>

\* sendResponse: the response is written to the connection; whether the
\* write went through (written) is not looked at, and the loop goes back to
\* its read
sendResponse(c, written) ==
    /\ phase = "serving"
    /\ c \in conns
    /\ handlers[c].pc = "send"
    /\ UNCHANGED gate
    /\ streams' = [streams EXCEPT ![c].outbox =
                      Append(@, handlers[c].turn)]
    /\ resp' = handlers[c].turn
    /\ handlers' = [handlers EXCEPT ![c] = Reading]
    /\ last' = NoHook
    /\ UNCHANGED <<process_map, config_map, events, links, phase, conns, exit,
                   pin, socket, done>>

ConnPid == 100
ConnLines(c) ==
    IF c = 1
    THEN {Line(TRUE, UpdateCmd(ConnPid, TAINT_HIGH)),
          Line(TRUE, ClearCmd(ConnPid))}
    ELSE {Line(TRUE, RegisterCmd(ConnPid)), Line(TRUE, GetStateCmd)}

ConnNext ==
    \/ \E c \in Clients : acceptConnections(c)
    \/ \E c \in Clients : \E line \in ConnLines(c) : Send(c, line)
    \/ \E c \in Clients : ReadBytes(c)
    \/ \E c \in Clients : handleLine(c, NoErrno)
    \/ \E c \in Clients, written \in BOOLEAN : sendResponse(c, written)
    \/ \E c \in Clients : handleConnectionEOF(c)

ConnSpec == ServeInit /\ [][ConnNext]_vars

\* the lines answered on a connection, in the order of the sendResponse calls
AnsweredLines(c) ==
    [i \in 1..Len(streams[c].outbox) |-> InHand(streams[c].outbox[i])]
LineInHand(c) ==
    IF handlers[c].pc = "read" THEN <<>> ELSE <<InHand(handlers[c].turn)>>
OtherClientsUntouched(c) ==
    \A k \in Clients \ {c} :
        /\ streams'[k] = streams[k]
        /\ (k \in conns) = (k \in conns')
        /\ k \in conns => handlers'[k] = handlers[k]

\* C28: on one connection the lines are handled strictly in the order
\* written and each gets exactly one sendResponse call, in that order: the
\* lines answered, then the one in hand, then those not yet read are the
\* lines the client wrote.  The response is the one the dispatcher computes
\* from the table at the moment of the line's map call, which is made before
\* the next line of that connection is read; and a step of one handler
\* touches nothing of another connection but the process table.
C28_InOrderOneResponse ==
    /\ [](\A c \in conns :
            AnsweredLines(c) \o LineInHand(c) \o streams[c].inbox
                = streams[c].sent)
    /\ [][\A c \in Clients :
            /\ (c \in conns /\ c \in conns'
                    /\ Len(streams'[c].inbox) < Len(streams[c].inbox))
                 => (handlers[c] = Reading /\ handlers'[c].pc = "handle")
            /\ handleLine(c, NoErrno) =>
                 LET r == Handle(process_map, InHand(handlers[c].turn), NoErrno)
                 IN  /\ process_map' = r.map
                     /\ handlers'[c].turn.response = r.response
                     /\ OtherClientsUntouched(c)
            /\ \A written \in BOOLEAN :
                 sendResponse(c, written) =>
                     /\ resp'.response = handlers[c].turn.response
                     /\ process_map' = process_map
                     /\ OtherClientsUntouched(c)]_vars

C28_Witness ==
    /\ 2 \in conns
    /\ Len(streams[2].outbox) = 2
    /\ streams[2].sent = <<Line(TRUE, RegisterCmd(ConnPid)),
                           Line(TRUE, GetStateCmd)>>
    /\ streams[2].outbox[2].response.data
            = <<Report(ConnPid :> process_info_t(ConnPid, TAINT_HIGH, 0, <<>>))>>
    /\ 1 \in conns
    /\ handlers[1].pc = "send"

\* C29: an I/O failure on one connection ends at most that connection's
\* handler.  A failed read ends the handler of that connection and nothing
\* else: every other connection stays open with its handler where it was
\* and its lines and responses as they were, the listener goes on listening
\* (the client can connect again), the daemon goes on serving and the
\* process table is unchanged.  A failed write of a response ends nothing at
\* all.
C29_FailureIsLocal ==
    [][\A c \in Clients :
        /\ handleConnectionEOF(c) =>
            /\ c \notin conns'
            /\ OtherClientsUntouched(c)
            /\ process_map' = process_map
            /\ phase' = "serving" /\ socket' = "listening" /\ ~done'
            /\ exit' = NoExit
        /\ sendResponse(c, FALSE) =>
            /\ conns' = conns
            /\ OtherClientsUntouched(c)
            /\ process_map' = process_map
            /\ phase' = "serving" /\ socket' = "listening" /\ ~done']_vars

C29_Witness ==
    /\ resp.conn = 1
    /\ 1 \notin conns
    /\ 2 \in conns
    /\ handlers[2].pc = "send"
    /\ Len(streams[2].outbox) = 1
    /\ process_map # EmptyMap
    /\ socket = "listening"

\* the records a command of the protocol writes for pid: the one
\* UPDATE_TAINT builds for a level and the one REGISTER_AGENT builds
WholeRecords(pid) ==
    {Handle(EmptyMap, Line(TRUE, UpdateCmd(pid, l)), NoErrno).map[pid] :
        l \in TaintLevels}
        \cup {Handle(EmptyMap, Line(TRUE, RegisterCmd(pid)), NoErrno).map[pid]}
ReportedWhole(turn) ==
    (turn.cmd = GetStateCmd) =>
        \A pid \in DOMAIN turn.response.data[1].processes :
            \E rec \in WholeRecords(pid) :
                turn.response.data[1].processes[pid]
                    = [taint_level |-> rec.taint_level,
                       sandboxed |-> rec.is_sandboxed]

\* C30: with UPDATE_TAINT, REGISTER_AGENT and CLEAR_TAINT for one pid in
\* flight on different connections, the table at every moment holds for that
\* pid either no entry or exactly the record one of the commands wrote,
\* never a mixture of two; each map call takes the table from what the calls
\* before it left to what that command alone makes of it, so the outcome is
\* that of the commands run one after another in the order of their map
\* calls; and every GET_STATE answer reports such a record or none.
C30_PerKeyAtomic ==
    /\ [](/\ \A pid \in DOMAIN process_map :
                process_map[pid] \in WholeRecords(pid)
          /\ \A c \in conns :
                /\ \A i \in 1..Len(streams[c].outbox) :
                        ReportedWhole(streams[c].outbox[i])
                /\ handlers[c].pc = "send" => ReportedWhole(handlers[c].turn))
    /\ [][\A c \in Clients :
            handleLine(c, NoErrno) =>
                process_map' \in
                    {Handle(process_map, line, NoErrno).map :
                        line \in ConnLines(c)}]_vars

C30_Witness ==
    /\ 1 \in conns /\ 2 \in conns
    /\ streams[1].outbox # <<>> /\ streams[2].outbox # <<>>
    /\ streams[1].outbox[1].cmd = UpdateCmd(ConnPid, TAINT_HIGH)
    /\ streams[2].outbox[1].cmd = RegisterCmd(ConnPid)
    /\ handlers[2].pc = "send"
    /\ handlers[2].turn.cmd = GetStateCmd
    /\ handlers[2].turn.response.data
            = <<Report(ConnPid :> process_info_t(ConnPid, TAINT_HIGH, 0, <<>>))>>
    /\ handlers[1].pc = "handle"
    /\ handlers[1].turn.cmd = ClearCmd(ConnPid)

\* C34 as stated: Config.max_taint_for_open is the threshold of the
\* file-open gate, so the verdict depends on it: under enforcement a pid
\* whose own entry is above that threshold is denied the open of a readable
\* file named id_..., which makes a run with the threshold at MEDIUM differ
\* from a run with the threshold at HIGH for a pid at HIGH opening id_rsa.
C34_OpenThresholdDecides ==
    (/\ FileSeen
     /\ Enforcing
     /\ Tracked(last.pid)
     /\ TaintOf(last.pid) > Cfg.max_taint_for_open
     /\ last.file = FileArg(TRUE, TRUE, Str_id_rsa))
        => last.ret = DENY

\* a step that is a hook invocation: it leaves a new observation in last
HookStep == last' # last /\ last'.hook # "none"
TaskSeen == last.hook = "task"

MixPids == {100, 101}
MixLevels == {TAINT_LOW, TAINT_HIGH}
MixLines ==
    {Line(TRUE, UpdateCmd(p, l)) : p \in MixPids, l \in MixLevels}
        \cup {Line(TRUE, ClearCmd(p)) : p \in MixPids}
        \cup {Line(TRUE, RegisterCmd(p)) : p \in MixPids}

MixNext ==
    \/ \E c \in CmdConns : acceptConnections(c)
    \/ \E c \in CmdConns, line \in MixLines : handleConnection(c, line, NoErrno)
    \/ \E c \in CmdConns : handleConnectionEOF(c)
    \/ \E pid \in Pids : telos_check_exec(pid)
    \/ \E pid \in Pids : telos_task_alloc(pid)

MixSpec == ServeInit /\ [][MixNext]_vars

\* the step is the handling of a command of the protocol for pid
CommandFor(pid) ==
    \E c \in CmdConns, line \in MixLines :
        /\ line.cmd.data.pid = <<pid>>
        /\ handleConnection(c, line, NoErrno)
Cleared(pid) ==
    \E c \in CmdConns : handleConnection(c, Line(TRUE, ClearCmd(pid)), NoErrno)

\* C31: entries do not expire.  An entry of the table leaves it only in the
\* handling of a CLEAR_TAINT for its pid, and changes only in the handling
\* of a command for its pid; a hook invocation, a command for another pid, a
\* client connecting or hanging up leave it as it is.  The gate knows a
\* process by its pid alone, so whatever process calls execve under that pid
\* is judged by the entry.
C31_NoExpiry ==
    /\ [][\A pid \in DOMAIN process_map :
            /\ pid \notin DOMAIN process_map' => Cleared(pid)
            /\ (pid \in DOMAIN process_map'
                    /\ process_map'[pid] # process_map[pid]) => CommandFor(pid)
         ]_vars
    /\ [](ExecSeen /\ Tracked(last.pid) =>
            last.ret = (IF TaintOf(last.pid) > Cfg.max_taint_for_exec
                        THEN DENY ELSE ALLOW))

C31_Witness ==
    /\ conns = {}
    /\ ExecSeen
    /\ last.pid = 100
    /\ last.ret = DENY
    /\ last.before = RingCap
    /\ Answered(ClearCmd(101))
    /\ resp.log = "[CLEAR] taint cleared"

\* what the pre-execution gate answers pid p on a table, the channel empty:
\* the verdict and the Event
ExecAnswer(p, pmap) == check_exec(p, pmap, config_map, <<>>)
DependsOn(p, q) ==
    \/ q = p
    \/ (p \notin DOMAIN process_map /\ q = real_parent_tgid(p))

C37_WholeRecordReplaced ==
    /\ [][\A c \in CmdConns, p \in MixPids :
            /\ handleConnection(c, Line(TRUE, RegisterCmd(p)), NoErrno) =>
                 /\ process_map'[p] =
                        process_info_t(p, TAINT_CLEAN, 0, Str_agent)
                 /\ ExecAnswer(p, process_map') = [ring |-> <<>>, ret |-> ALLOW]
            /\ \A l \in MixLevels :
                 handleConnection(c, Line(TRUE, UpdateCmd(p, l)), NoErrno) =>
                     process_map'[p] = process_info_t(p, l, 0, <<>>)]_vars
    /\ [](\A k \in DOMAIN process_map : process_map[k].pid = k)

C37_Witness ==
    /\ Answered(RegisterCmd(100))
    /\ Succeeded
    /\ events # <<>>
    /\ events[1].pid = 100
    /\ ExecSeen
    /\ last.pid = 100
    /\ last.ret = ALLOW
    /\ process_map[100] = process_info_t(100, TAINT_CLEAN, 0, Str_agent)

\* C38: the file-open gate fails open when it cannot obtain the name.  For a
\* pid whose own entry is CRITICAL, an open of a file with no dentry, or
\* whose name the read fails on, returns ALLOW and appends no Event, with
\* enforcement enabled as without.
NameUnreadable == FileSeen /\ (~last.file.dentry \/ ~last.file.readable)
C38_FailsOpenWithoutName ==
    (/\ NameUnreadable
     /\ Tracked(last.pid)
     /\ TaintOf(last.pid) = TAINT_CRITICAL)
        => (last.ret = ALLOW /\ NoEventAppended)

C38_Witness ==
    /\ NameUnreadable
    /\ last.file = FileArg(TRUE, FALSE, Str_id_rsa)
    /\ Tracked(last.pid)
    /\ TaintOf(last.pid) = TAINT_CRITICAL
    /\ Enforcing
    /\ HadRoom
    /\ last.ret = ALLOW
    /\ events = <<>>

\* ------------------------------------------------------------------------
\* The command server over a process table filled to its capacity
\* ------------------------------------------------------------------------
\* the table after UPDATE_TAINT(pid, LOW) for the pids 1..max_entries
FullTable ==
    [p \in 1..PROCESS_MAP_MAX |-> process_info_t(p, TAINT_LOW, 0, <<>>)]
PresentPid == 1
AbsentPids == {PROCESS_MAP_MAX + 1, PROCESS_MAP_MAX + 2}
CapPids == {PresentPid} \cup AbsentPids
CapLines ==
    {Line(TRUE, UpdateCmd(p, TAINT_HIGH)) : p \in CapPids}
        \cup {Line(TRUE, RegisterCmd(p)) : p \in CapPids}
        \cup {Line(TRUE, ClearCmd(p)) : p \in CapPids}

CapInit ==
    /\ process_map = FullTable
    /\ config_map = ConfigMap(DefaultConfig)
    /\ events = <<>>
    /\ links = BPFLinks(TRUE, TRUE, TRUE)
    /\ phase = "serving"
    /\ resp = NoResp
    /\ last = NoHook
    /\ conns = {}
    /\ exit = NoExit
    /\ pin = OwnPin
    /\ socket = "listening"
    /\ done = FALSE
    /\ handlers = NoHandlers
    /\ streams = NoStreams
    /\ gate = NoGate

CapNext ==
    \/ \E c \in CmdConns : acceptConnections(c)
    \/ \E c \in CmdConns, line \in CapLines : handleConnection(c, line, NoErrno)
    \/ \E c \in CmdConns : handleConnectionEOF(c)

CapSpec == CapInit /\ [][CapNext]_vars

Entries == Cardinality(DOMAIN process_map)
Full == Entries = PROCESS_MAP_MAX
Refused == ~resp'.response.success /\ process_map' = process_map

\* C39: the process table holds at most 4096 entries.  While it is full, an
\* UPDATE_TAINT or a REGISTER_AGENT for a pid that has no entry is answered
\* with a failure and leaves the table as it is; an UPDATE_TAINT or a
\* REGISTER_AGENT for a pid that has an entry succeeds and replaces it, and
\* a CLEAR_TAINT succeeds.
C39_CapacityBounded ==
    /\ [](Entries <= PROCESS_MAP_MAX)
    /\ [][\A c \in CmdConns, p \in CapPids :
            /\ handleConnection(c, Line(TRUE, UpdateCmd(p, TAINT_HIGH)), NoErrno)
                 => IF Full /\ ~Tracked(p) THEN Refused
                    ELSE /\ resp'.response.success
                         /\ process_map'[p] =
                                process_info_t(p, TAINT_HIGH, 0, <<>>)
            /\ handleConnection(c, Line(TRUE, RegisterCmd(p)), NoErrno)
                 => IF Full /\ ~Tracked(p) THEN Refused
                    ELSE /\ resp'.response.success
                         /\ process_map'[p] =
                                process_info_t(p, TAINT_CLEAN, 0, Str_agent)
            /\ handleConnection(c, Line(TRUE, ClearCmd(p)), NoErrno)
                 => /\ resp'.response.success
                    /\ p \notin DOMAIN process_map']_vars

C39_Witness ==
    /\ Full
    /\ Answered(RegisterCmd(PROCESS_MAP_MAX + 2))
    /\ ~Succeeded
    /\ resp.err = "E2BIG"
    /\ ~Tracked(PROCESS_MAP_MAX + 2)
    /\ ~Tracked(PresentPid)
    /\ Tracked(PROCESS_MAP_MAX + 1)

\* ------------------------------------------------------------------------
\* The pre-execution check lookup by lookup, beside the command handlers
\* ------------------------------------------------------------------------
\* lines 123-141 with the two lookups apart: info is what the caller's own
\* lookup returned, pmap the table at the time of the parent's lookup
effective_taint_of(info, pid, pmap) ==
    IF info # <<>>
    THEN info[1].taint_level
    ELSE LET parent_info == bpf_map_lookup_elem(pmap, real_parent_tgid(pid))
         IN  IF parent_info # <<>> THEN parent_info[1].taint_level
             ELSE TAINT_CLEAN

\* telos_check_exec starts: Config is read and the caller's entry looked up
check_exec_lookup(pid) ==
    /\ links.CheckExec
    /\ gate.stage # "parent"
    /\ gate' = Gate("parent", pid, bpf_map_lookup_elem(process_map, pid),
                    {check_exec(pid, process_map, config_map, <<>>).ret}, 0)
    /\ last' = NoHook
    /\ UNCHANGED <<process_map, config_map, events, links, phase, resp, conns,
                   exit, pin, socket, done, handlers, streams>>

\* telos_check_exec goes on: the parent's entry is looked up if the caller
\* had none, the taint is compared, the Event emitted, the verdict returned
check_exec_return ==
    /\ links.CheckExec
    /\ gate.stage = "parent"
    /\ LET taint == effective_taint_of(gate.info, gate.pid, process_map)
           exceeded == exceeds(taint, exec_max_taint(config_map))
           ret == IF exceeded THEN exec_return(gate_enforce(config_map)) ELSE 0
       IN  /\ events' = IF exceeded
                        THEN emit_event(events, gate.pid, taint, 1, Str_execve)
                        ELSE events
           /\ last' = Observed("exec", gate.pid, NoFile, ret, Len(events))
           /\ gate' = [gate EXCEPT !.stage = "returned", !.ret = ret]
    /\ UNCHANGED <<process_map, config_map, links, phase, resp, conns, exit,
                   pin, socket, done, handlers, streams>>

RaceCaller == 101
RaceLines ==
    {Line(TRUE, UpdateCmd(p, TAINT_HIGH)) : p \in MixPids}
        \cup {Line(TRUE, ClearCmd(p)) : p \in MixPids}

RaceNext ==
    \/ \E c \in CmdConns : acceptConnections(c)
    \/ \E c \in CmdConns, line \in RaceLines : handleConnection(c, line, NoErrno)
    \/ \E c \in CmdConns : handleConnectionEOF(c)
    \/ check_exec_lookup(RaceCaller)
    \/ check_exec_return

RaceSpec == ServeInit /\ [][RaceNext]_vars

\* C36 as stated: the verdict a pre-execution check returns is the verdict
\* the gate computes on one of the tables that existed between the start of
\* the check and its return.
C36_VerdictLinearizable ==
    gate.stage = "returned" => gate.ret \in gate.verdicts

\* ------------------------------------------------------------------------
\* Shutdown while the handlers are in flight: the signal goroutine (Stop,
\* then os.Exit) beside the accept loop and the handlers, step by step.
\* The signal goroutine runs straight through Stop to os.Exit and nothing in
\* between waits, so once Stop has run the exit is taken (weak fairness).
\* ------------------------------------------------------------------------
ShutdownLines(c) ==
    IF c = 1 THEN {Line(TRUE, UpdateCmd(ConnPid, TAINT_HIGH))}
    ELSE {Line(TRUE, RegisterCmd(ConnPid))}

ShutdownNext ==
    \/ \E c \in Clients : acceptConnections(c)
    \/ \E c \in Clients : \E line \in ShutdownLines(c) : Send(c, line)
    \/ \E c \in Clients : ReadBytes(c)
    \/ \E c \in Clients : handleLine(c, NoErrno)
    \/ \E c \in Clients, written \in BOOLEAN : sendResponse(c, written)
    \/ \E c \in Clients : handleConnectionEOF(c)
    \/ signal_Stop
    \/ signal_Exit

ShutdownSpec ==
    ServeInit /\ [][ShutdownNext]_vars /\ WF_vars(signal_Exit)

Exit0 == exit = Exited(0, "")

\* C33: once shutdown has begun (d.done is closed) the listener is closed,
\* so the accept loop takes no further connection and ends; the process
\* then exits, from which point no handler is left and no command is
\* handled; and whatever a handler was doing when it was cut off, every
\* entry of the table is a record written whole by one command.
C33_ShutdownEndsHandlers ==
    /\ done ~> Exit0
    /\ [](done => socket # "listening")
    /\ [][done => conns' \subseteq conns]_vars
    /\ [](Exit0 => (conns = {} /\ handlers = NoHandlers))
    /\ [][Exit0 => (process_map' = process_map /\ resp' = resp)]_vars
    /\ [](\A pid \in DOMAIN process_map :
            process_map[pid] \in WholeRecords(pid))

C33_Witness ==
    /\ done
    /\ ~Exit0
    /\ 1 \in conns /\ 2 \in conns
    /\ handlers[1].pc = "send"
    /\ handlers[2].pc = "handle"
    /\ process_map = (ConnPid :> process_info_t(ConnPid, TAINT_HIGH, 0, <<>>))

====
